---- MODULE Spec2Model ----
(***************************************************************************)
(* A model of the jsonnet virtual machine of core/vm.cpp: the explicit     *)
(* evaluation stack, thunks, prototype objects with self/super, object     *)
(* invariants, the heap with its mark-and-sweep collector, tail-call       *)
(* trimming and JSON manifestation.  The machine is run on a fixed set of  *)
(* small desugared programs; every step of the model is one case of the    *)
(* dispatch switch of Interpreter::evaluate, one case of its unwinding     *)
(* loop, or one step of the manifester.                                    *)
(***************************************************************************)
EXTENDS Integers, Sequences, FiniteSets, TLC

\* ------------------------------------------------------------------ bounds
\* Longest call chain of the recursive programs.
MaxN == 3
\* Largest configured max_stack (every limit from 1 up to it is tried).
MaxLimit == 4
\* Collect garbage on every allocation whose number is a multiple of the
\* period, for every period up to this one (0: never collect).
MaxGcPeriod == 2
\* Most turns of the unwinding loop on STRING_CONCAT frames in one run.
MaxConcats == 3

\* ------------------------------------------------------------- core AST
Num(n) == [k |-> "num", n |-> n]
Bool(b) == [k |-> "bool", b |-> b]
Str(s) == [k |-> "str", s |-> s]
Null == [k |-> "null"]
Self == [k |-> "self"]
NoAst == [k |-> "none"]
Var(id) == [k |-> "var", id |-> id]
Bind(var, body) == [var |-> var, body |-> body]
Local(binds, body) == [k |-> "local", binds |-> binds, body |-> body]
Function(params, body) == [k |-> "function", params |-> params, body |-> body]
Apply(target, args, tailstrict) ==
    [k |-> "apply", target |-> target, args |-> args, tailstrict |-> tailstrict]
Binary(left, op, right) == [k |-> "binary", op |-> op, left |-> left, right |-> right]
If(cond, branchTrue, branchFalse) ==
    [k |-> "if", cond |-> cond, branchTrue |-> branchTrue, branchFalse |-> branchFalse]
Index(target, index) == [k |-> "index", target |-> target, index |-> index]
SuperIndex(index) == [k |-> "superindex", index |-> index]
Field(name, hide, body) == [name |-> name, hide |-> hide, body |-> body]
Object(fields, asserts) == [k |-> "object", fields |-> fields, asserts |-> asserts]
Array(elements) == [k |-> "array", elements |-> elements]
Error(expr) == [k |-> "error", expr |-> expr]
ObjComp(field, value, id, array) ==
    [k |-> "objcomp", field |-> field, value |-> value, id |-> id, array |-> array]
BuiltinFunction(id, params) == [k |-> "builtin", id |-> id, params |-> params]
\* location is the file the statement is in (LocationRange::file), a file
\* name being the sequence of its path components; file is the literal path.
Import(location, file) == [k |-> "import", location |-> location, file |-> file]
Importstr(location, file) == [k |-> "importstr", location |-> location, file |-> file]

\* An object-level assertion as the desugarer leaves it.
Invariant(cond) == If(cond, Null, Error(Str("Assertion failed")))
\* e.f as the desugarer leaves it.
Dot(e, f) == Index(e, Str(f))

RECURSIVE FreeVars(_)
\* The free-variable annotation the static analyser leaves on every node.
FreeVars(a) ==
    LET Each(s) == UNION {FreeVars(s[i]) : i \in 1..Len(s)} IN
    CASE a.k = "var" -> {a.id}
      [] a.k = "local" ->
            (FreeVars(a.body) \cup UNION {FreeVars(a.binds[i].body) : i \in 1..Len(a.binds)})
                \ {a.binds[i].var : i \in 1..Len(a.binds)}
      [] a.k = "function" -> FreeVars(a.body) \ {a.params[i] : i \in 1..Len(a.params)}
      [] a.k = "apply" -> FreeVars(a.target) \cup Each(a.args)
      [] a.k = "binary" -> FreeVars(a.left) \cup FreeVars(a.right)
      [] a.k = "if" -> FreeVars(a.cond) \cup FreeVars(a.branchTrue) \cup FreeVars(a.branchFalse)
      [] a.k = "index" -> FreeVars(a.target) \cup FreeVars(a.index)
      [] a.k = "superindex" -> FreeVars(a.index)
      [] a.k = "error" -> FreeVars(a.expr)
      [] a.k = "object" ->
            UNION {FreeVars(a.fields[i].name) \cup FreeVars(a.fields[i].body)
                       : i \in 1..Len(a.fields)}
                \cup Each(a.asserts)
      [] a.k = "array" -> Each(a.elements)
      [] a.k = "objcomp" ->
            FreeVars(a.array) \cup ((FreeVars(a.field) \cup FreeVars(a.value)) \ {a.id})
      [] OTHER -> {}

\* --------------------------------------------------------------- values
\* A Value is a tagged record; h is the heap entity of a string, array,
\* object or function, n the number, b the boolean (0 when unused).
VNull == [t |-> "null", n |-> 0, h |-> 0]
makeBoolean(b) == [t |-> "boolean", n |-> IF b THEN 1 ELSE 0, h |-> 0]
makeDouble(n) == [t |-> "number", n |-> n, h |-> 0]
HeapValue(t, h) == [t |-> t, n |-> 0, h |-> h]
isHeap(v) == v.t \in {"string", "array", "object", "function"}

EmptyEnv == [x \in {} |-> 0]
Bound(env, id) == id \in DOMAIN env
Put(env, id, th) == [x \in (DOMAIN env) \cup {id} |-> IF x = id THEN th ELSE env[x]]

\* ------------------------------------------------------- heap entities
HeapThunk(name, self, offset, body) ==
    [kind |-> "thunk", name |-> name, self |-> self, offset |-> offset, body |-> body,
     upValues |-> EmptyEnv, filled |-> FALSE, content |-> VNull]
HeapArray(elements) == [kind |-> "array", elements |-> elements]
HeapString(value) == [kind |-> "string", value |-> value]
HeapClosure(upValues, self, offset, params, body, builtin) ==
    [kind |-> "closure", upValues |-> upValues, self |-> self, offset |-> offset,
     params |-> params, body |-> body, builtin |-> builtin]
HeapSimpleObject(upValues, fields, asserts) ==
    [kind |-> "simple", upValues |-> upValues, fields |-> fields, asserts |-> asserts]
HeapComprehensionObject(upValues, value, id, compValues) ==
    [kind |-> "comp", upValues |-> upValues, value |-> value, id |-> id,
     compValues |-> compValues]
HeapExtendedObject(left, right) == [kind |-> "ext", left |-> left, right |-> right]

Range(f) == {f[x] : x \in DOMAIN f}

\* -------------------------------------------------------------- frames
\* ginv is a history field, not a field of the C++ Frame: on an
\* CALL frame of a function it counts in ran the times the body was
\* entered; on an INDEX_INDEX frame it counts in index the times the index
\* expression was started, and it remembers the invariant thunks that were created
\* when the frame's target was found to be an object (see IndexTarget).
Frame(kind, ast) ==
    [kind |-> kind, ast |-> ast, tailCall |-> FALSE, val |-> VNull, val2 |-> VNull,
     fit |-> 0, objectFields |-> EmptyEnv, elementId |-> 0, elements |-> EmptyEnv,
     thunks |-> <<>>, context |-> 0, self |-> 0, offset |-> 0, bindings |-> EmptyEnv,
     ginv |-> [on |-> FALSE, thunks |-> <<>>, index |-> 0, ran |-> 0]]

isCall(f) == f.kind = "CALL"

Top(s) == s[Len(s)]
Pop(s) == SubSeq(s, 1, Len(s) - 1)
SetTop(s, f) == [s EXCEPT ![Len(s)] = f]

RECURSIVE lookUpVarThroughCalls(_, _, _)
\* A search that goes on below a CALL frame.
lookUpVarThroughCalls(stk, i, id) ==
    IF i = 0 THEN 0
    ELSE IF Bound(stk[i].bindings, id) THEN stk[i].bindings[id]
    ELSE lookUpVarThroughCalls(stk, i - 1, id)

RECURSIVE lookUpVarFrom(_, _, _)
lookUpVarFrom(stk, i, id) ==
    IF i = 0 THEN 0
    ELSE IF Bound(stk[i].bindings, id) THEN stk[i].bindings[id]
    ELSE IF isCall(stk[i]) THEN 0
    ELSE lookUpVarFrom(stk, i - 1, id)

\* Stack::lookUpVar: the closest binding of id, 0 (nullptr) when there is none.
lookUpVar(stk, id) == lookUpVarFrom(stk, Len(stk), id)

\* Interpreter::capture.
capture(stk, free_vars) ==
    [x \in {v \in free_vars : lookUpVar(stk, v) # 0} |-> lookUpVar(stk, x)]

\* A scan that does not look below the top frame.
TrimAtTop(stk, i) ==
    IF i = 0 THEN 0
    ELSE IF stk[i].kind = "CALL" /\ stk[i].tailCall /\ Len(stk[i].thunks) = 0 THEN i
    ELSE 0

RECURSIVE TrimAt(_, _)
\* The scan of Stack::tailCallTrimStack: the index of the CALL frame to cut
\* the stack at, 0 when nothing is trimmed.
TrimAt(stk, i) ==
    IF i = 0 THEN 0
    ELSE CASE stk[i].kind = "CALL" ->
                IF ~stk[i].tailCall \/ Len(stk[i].thunks) > 0 THEN 0 ELSE i
           [] stk[i].kind = "LOCAL" -> TrimAt(stk, i - 1)
           [] OTHER -> 0

\* A trimming that never finds a frame to remove.
TrimNever(stk) == [stack |-> stk, dropped |-> 0]

\* Stack::tailCallTrimStack: the stack left, and by how much calls is lowered.
tailCallTrimStack(stk) ==
    LET i == TrimAt(stk, Len(stk)) IN
    IF i = 0 THEN [stack |-> stk, dropped |-> 0]
    ELSE [stack |-> SubSeq(stk, 1, i - 1), dropped |-> 1]

\* A limit test that lets one frame too many through.
StackFullOffByOne(ncalls, lim) == ncalls > lim

\* The test of Stack::newCall against the configured limit.
StackFull(ncalls, lim) == ncalls >= lim

\* Stack::newCall.  ok is FALSE when "Max stack frames exceeded." is thrown;
\* the stack and calls are then those left by the trimming.
newCall(stk, ncalls, lim, loc, context, self, offset, up_values) ==
    LET t == tailCallTrimStack(stk)
        c == ncalls - t.dropped
    IN  IF StackFull(c, lim)
        THEN [ok |-> FALSE, stack |-> t.stack, calls |-> c]
        ELSE [ok |-> TRUE,
              stack |-> Append(t.stack,
                               [Frame("CALL", loc) EXCEPT !.context = context,
                                    !.self = self, !.offset = offset,
                                    !.bindings = up_values, !.tailCall = FALSE]),
              calls |-> c + 1]

\* A pop that leaves the counter of CALL frames as it is.
popKeepsCalls(stk, ncalls) == [stack |-> Pop(stk), calls |-> ncalls]

\* Stack::pop.
pop(stk, ncalls) ==
    [stack |-> Pop(stk), calls |-> IF isCall(Top(stk)) THEN ncalls - 1 ELSE ncalls]

RECURSIVE SelfFrom(_, _)
SelfFrom(stk, i) ==
    IF i = 0 THEN [self |-> 0, offset |-> 0]
    ELSE IF isCall(stk[i]) THEN [self |-> stk[i].self, offset |-> stk[i].offset]
    ELSE SelfFrom(stk, i - 1)

\* Stack::getSelfBinding.
getSelfBinding(stk) == SelfFrom(stk, Len(stk))

\* A look up the stack that finds no INVARIANTS frame.
neverExecutingInvariants(stk, self) == FALSE

\* Stack::alreadyExecutingInvariants.
alreadyExecutingInvariants(stk, self) ==
    \E i \in 1..Len(stk) : stk[i].kind = "INVARIANTS" /\ stk[i].self = self

\* ---------------------------------------------------------------- heap
\* The entities an entity refers to (what Heap::markFrom follows).
Children(e) ==
    CASE e.kind = "thunk" ->
            ({e.self} \cup Range(e.upValues)
                \cup (IF e.filled /\ isHeap(e.content) THEN {e.content.h} ELSE {})) \ {0}
      [] e.kind = "array" -> Range(e.elements)
      [] e.kind = "closure" -> ({e.self} \cup Range(e.upValues)) \ {0}
      [] e.kind = "simple" -> Range(e.upValues)
      [] e.kind = "comp" -> Range(e.upValues) \cup Range(e.compValues)
      [] e.kind = "ext" -> {e.left, e.right}
      [] OTHER -> {}

RECURSIVE Reach(_, _, _)
\* Everything reachable in heap h from the entities of frontier.
Reach(h, frontier, seen) ==
    IF frontier = {} THEN seen
    ELSE LET s2 == seen \cup frontier
             nxt == UNION {Children(h[x]) : x \in frontier} \ s2
         IN  Reach(h, nxt, s2)

ValueRoots(v) == IF isHeap(v) THEN {v.h} ELSE {}

\* A marking that forgets the frame's val and val2 slots.
MarkWithoutVal(f) ==
    ({f.context, f.self} \ {0}) \cup Range(f.bindings) \cup Range(f.elements)
        \cup Range(f.thunks)

\* Frame::mark: the entities a frame roots.
FrameMark(f) ==
    ValueRoots(f.val) \cup ValueRoots(f.val2) \cup ({f.context, f.self} \ {0})
        \cup Range(f.bindings) \cup Range(f.elements) \cup Range(f.thunks)

\* Stack::mark.
StackMark(stk) == UNION {FrameMark(stk[i]) : i \in 1..Len(stk)}

\* -------------------------------------------------------------- objects
HasField(e, f) ==
    \/ e.kind = "simple" /\ f \in DOMAIN e.fields
    \/ e.kind = "comp" /\ f \in DOMAIN e.compValues

RECURSIVE findObjectFromFirst(_, _, _, _, _)
\* A findObject that steps over no leaf, whatever start_from.
findObjectFromFirst(h, f, curr, start_from, counter) ==
    IF h[curr].kind = "ext"
    THEN LET r == findObjectFromFirst(h, f, h[curr].right, start_from, counter) IN
         IF r.found # 0 THEN r
         ELSE findObjectFromFirst(h, f, h[curr].left, start_from, r.counter)
    ELSE IF HasField(h[curr], f)
         THEN [found |-> curr, counter |-> counter]
         ELSE [found |-> 0, counter |-> counter + 1]

RECURSIVE findObject(_, _, _, _, _)
\* Interpreter::findObject: found is the first leaf holding f, right to left,
\* from leaf start_from on (0: none); counter is the number of leaves passed.
findObject(h, f, curr, start_from, counter) ==
    IF h[curr].kind = "ext"
    THEN LET r == findObject(h, f, h[curr].right, start_from, counter) IN
         IF r.found # 0 THEN r
         ELSE findObject(h, f, h[curr].left, start_from, r.counter)
    ELSE IF counter >= start_from /\ HasField(h[curr], f)
         THEN [found |-> curr, counter |-> counter]
         ELSE [found |-> 0, counter |-> counter + 1]

RECURSIVE objectFieldsMapRightWins(_, _, _)
\* A merge in which the right operand decides whatever its hide kind.
objectFieldsMapRightWins(h, obj, manifesting) ==
    LET e == h[obj] IN
    CASE e.kind = "simple" ->
            [f \in DOMAIN e.fields |->
                IF ~manifesting THEN "VISIBLE" ELSE e.fields[f].hide]
      [] e.kind = "ext" ->
            LET r == objectFieldsMapRightWins(h, e.right, manifesting)
                l == objectFieldsMapRightWins(h, e.left, manifesting)
            IN  [f \in (DOMAIN r) \cup (DOMAIN l) |->
                    IF f \notin DOMAIN r THEN l[f] ELSE r[f]]
      [] OTHER -> [f \in DOMAIN e.compValues |-> "VISIBLE"]

RECURSIVE objectFieldsMap(_, _, _)
\* Interpreter::objectFields (the IdHideMap overload, called with skip = 0).
objectFieldsMap(h, obj, manifesting) ==
    LET e == h[obj] IN
    CASE e.kind = "simple" ->
            [f \in DOMAIN e.fields |->
                IF ~manifesting THEN "VISIBLE" ELSE e.fields[f].hide]
      [] e.kind = "ext" ->
            LET r == objectFieldsMap(h, e.right, manifesting)
                l == objectFieldsMap(h, e.left, manifesting)
            IN  [f \in (DOMAIN r) \cup (DOMAIN l) |->
                    IF f \notin DOMAIN r THEN l[f]
                    ELSE IF r[f] = "INHERIT" /\ f \in DOMAIN l THEN l[f]
                    ELSE r[f]]
      [] OTHER -> [f \in DOMAIN e.compValues |-> "VISIBLE"]

\* Interpreter::objectFields (the set overload).
objectFields(h, obj, manifesting) ==
    LET m == objectFieldsMap(h, obj, manifesting) IN
    {f \in DOMAIN m : m[f] # "HIDDEN"}

RECURSIVE countLeaves(_, _)
\* Interpreter::countLeaves.
countLeaves(h, obj) ==
    IF obj = 0 THEN 1
    ELSE IF h[obj].kind = "ext"
         THEN countLeaves(h, h[obj].left) + countLeaves(h, h[obj].right)
         ELSE 1

\* The field names of the programs, in the order std::map<String, ...> keeps them.
NameOrder == <<"a", "b", "c", "f", "g", "x", "y", "z">>

\* The names of a set in descending order.
SortedDescending(names) ==
    LET up == SelectSeq(NameOrder, LAMBDA n : n \in names) IN
    [i \in 1..Len(up) |-> up[Len(up) + 1 - i]]

\* The names of a set in ascending order.
Sorted(names) == SelectSeq(NameOrder, LAMBDA n : n \in names)

\* ------------------------------------------------------------ the state
VARIABLES
    cfg,      \* the run: program, max_stack, collection period
    heap,     \* the heap entities, by identity (never reused)
    swept,    \* the identities the collector has deleted
    allocs,   \* how many entities were allocated
    stack,    \* Stack::stack
    calls,    \* Stack::calls
    scratch,  \* Interpreter::scratch
    ctl,      \* where Interpreter::evaluate stands: the AST to evaluate, or the unwinding loop
    nat,      \* the native (C++) activations: the evaluate and manifest calls in progress
    ret,      \* the String returned by the manifestJson call that returned last
    out,      \* the output of the run
    err,      \* the message of the RuntimeError thrown ("" while none)
    cachedImports, \* Interpreter::cachedImports
    trace,    \* the stack trace of the RuntimeError thrown
    hist      \* history of the run, read by the properties only

vars == <<cfg, heap, swept, allocs, stack, calls, scratch, ctl, nat, ret, out, err,
          cachedImports, trace, hist>>

\* Heap::checkHeap: whether this allocation collects.
checkHeap(n) == cfg.gc > 0 /\ n % cfg.gc = 0

\* The roots Interpreter::makeHeap marks from: the entity just made, the
\* stack and the scratch register.
Roots(id, stk, scr) == {id} \cup StackMark(stk) \cup ValueRoots(scr)

\* Interpreter::makeHeap on the heap state H with the roots of the moment.
makeHeap(H, e, stk, scr) ==
    LET h2 == Append(H.heap, e)
        id == Len(h2)
        n == H.allocs + 1
    IN  [heap |-> h2, allocs |-> n, id |-> id,
         swept |-> IF checkHeap(n)
                   THEN H.swept \cup ((1..id) \ Reach(h2, Roots(id, stk, scr), {}))
                   ELSE H.swept]

TheHeap == [heap |-> heap, swept |-> swept, allocs |-> allocs, id |-> 0]

SetHeap(H) == heap' = H.heap /\ swept' = H.swept /\ allocs' = H.allocs

\* HeapThunk::fill.
fill(h, th, v) == [h EXCEPT ![th].filled = TRUE, ![th].content = v]

RECURSIVE InvariantThunks(_, _, _, _, _, _, _)
InvariantThunks(H, stk, scr, simp, self, counter, i) ==
    IF i > Len(H.heap[simp].asserts) THEN [H |-> H, stack |-> stk]
    ELSE LET a == makeHeap(H, HeapThunk("object_assert", self, counter,
                                        H.heap[simp].asserts[i]), stk, scr)
             h3 == [a.heap EXCEPT ![a.id].upValues = H.heap[simp].upValues]
             s3 == SetTop(stk, [Top(stk) EXCEPT !.thunks = Append(@, a.id)])
         IN  InvariantThunks([a EXCEPT !.heap = h3], s3, scr, simp, self, counter, i + 1)

RECURSIVE objectInvariantsOfRightmost(_, _, _, _, _, _)
\* An objectInvariants that descends into right operands only.
objectInvariantsOfRightmost(H, stk, scr, curr, self, counter) ==
    IF H.heap[curr].kind = "ext"
    THEN objectInvariantsOfRightmost(H, stk, scr, H.heap[curr].right, self, counter)
    ELSE IF H.heap[curr].kind = "simple"
         THEN LET r == InvariantThunks(H, stk, scr, curr, self, counter, 1) IN
              [H |-> r.H, stack |-> r.stack, counter |-> counter + 1]
         ELSE [H |-> H, stack |-> stk, counter |-> counter + 1]

RECURSIVE objectInvariants(_, _, _, _, _, _)
\* Interpreter::objectInvariants, the thunks going to the top frame's thunks.
objectInvariants(H, stk, scr, curr, self, counter) ==
    IF H.heap[curr].kind = "ext"
    THEN LET r == objectInvariants(H, stk, scr, H.heap[curr].right, self, counter) IN
         objectInvariants(r.H, r.stack, scr, H.heap[curr].left, self, r.counter)
    ELSE IF H.heap[curr].kind = "simple"
         THEN LET r == InvariantThunks(H, stk, scr, curr, self, counter, 1) IN
              [H |-> r.H, stack |-> r.stack, counter |-> counter + 1]
         ELSE [H |-> H, stack |-> stk, counter |-> counter + 1]

\* ------------------------------------------------------------- programs
Plain(name, body) == Field(Str(name), "INHERIT", body)
Call(target, args) == Apply(target, args, FALSE)

\* { assert true, assert false, a: 1 }
ProgManifestInvariants ==
    Object(<<Plain("a", Num(1))>>, <<Invariant(Bool(TRUE)), Invariant(Bool(FALSE))>>)

\* { assert 1 <= self.x, x: 0 }.x
ProgIndexInvariantFails ==
    Dot(Object(<<Plain("x", Num(0))>>, <<Invariant(Binary(Num(1), "<=", Dot(Self, "x")))>>),
        "x")

\* ({ assert self.x <= 5, x: 1 } + { assert true, assert self.x <= 3, y: self.x }).y
ProgIndexInvariants ==
    Dot(Binary(Object(<<Plain("x", Num(1))>>,
                      <<Invariant(Binary(Dot(Self, "x"), "<=", Num(5)))>>),
               "+",
               Object(<<Plain("y", Dot(Self, "x"))>>,
                      <<Invariant(Bool(TRUE)),
                        Invariant(Binary(Dot(Self, "x"), "<=", Num(3)))>>)),
        "y")

\* local f = function(n) if n <= 0 then 0 else f(n - 1) tailstrict; f(N)
ProgTail(n, entryTailstrict) ==
    Local(<<Bind("f", Function(<<"n">>,
                If(Binary(Var("n"), "<=", Num(0)), Num(0),
                   Apply(Var("f"), <<Binary(Var("n"), "-", Num(1))>>, TRUE))))>>,
          Apply(Var("f"), <<Num(n)>>, entryTailstrict))

\* local f = function(n) if n <= 0 then 0 else local m = n - 1; f(m) tailstrict;
\* f(N) tailstrict
ProgTailLocal(n) ==
    Local(<<Bind("f", Function(<<"n">>,
                If(Binary(Var("n"), "<=", Num(0)), Num(0),
                   Local(<<Bind("m", Binary(Var("n"), "-", Num(1)))>>,
                         Apply(Var("f"), <<Var("m")>>, TRUE)))))>>,
          Apply(Var("f"), <<Num(n)>>, TRUE))

\* local f = function(n) if n <= 0 then 0 else 1 + f(n - 1); f(N)
ProgDeep(n) ==
    Local(<<Bind("f", Function(<<"n">>,
                If(Binary(Var("n"), "<=", Num(0)), Num(0),
                   Binary(Num(1), "+",
                          Call(Var("f"), <<Binary(Var("n"), "-", Num(1))>>)))))>>,
          Call(Var("f"), <<Num(n)>>))

\* local a = [1 + 1]; { x: a, y: a[0], z: a }
ProgThunks ==
    Local(<<Bind("a", Array(<<Binary(Num(1), "+", Num(1))>>))>>,
          Object(<<Plain("x", Var("a")), Plain("y", Index(Var("a"), Num(0))),
                   Plain("z", Var("a"))>>, <<>>))

\* ({ a: function() self.b, b: 1 } + { b: 2 }).a()
ProgLexicalSelf ==
    Call(Dot(Binary(Object(<<Plain("a", Function(<<>>, Dot(Self, "b"))),
                             Plain("b", Num(1))>>, <<>>),
                    "+", Object(<<Plain("b", Num(2))>>, <<>>)),
             "a"),
         <<>>)

\* { a: 1 } + { a: super.a + 1 } + { a: super.a + 1 }
ProgSuper ==
    Binary(Binary(Object(<<Plain("a", Num(1))>>, <<>>), "+",
                  Object(<<Plain("a", Binary(SuperIndex(Str("a")), "+", Num(1)))>>, <<>>)),
           "+", Object(<<Plain("a", Binary(SuperIndex(Str("a")), "+", Num(1)))>>, <<>>))

\* ({ a: super.b } + { b: 1 }).a
ProgNoSuper ==
    Dot(Binary(Object(<<Plain("a", SuperIndex(Str("b")))>>, <<>>), "+",
               Object(<<Plain("b", Num(1))>>, <<>>)),
        "a")

\* ({ a: (function(x) x)(super.b) } + { b: 2 } + { b: 1 }).a
ProgOffsets ==
    Dot(Binary(Binary(Object(<<Plain("b", Num(1))>>, <<>>), "+",
                      Object(<<Plain("a", Call(Function(<<"x">>, Var("x")),
                                               <<SuperIndex(Str("b"))>>))>>, <<>>)),
               "+", Object(<<Plain("b", Num(2))>>, <<>>)),
        "a")

\* local f = 0, g = 0; local f = function() g, g = if true then 1 else f; f()
ProgMutual ==
    Local(<<Bind("f", Num(0)), Bind("g", Num(0))>>,
          Local(<<Bind("f", Function(<<>>, Var("g"))),
                  Bind("g", If(Bool(TRUE), Num(1), Var("f")))>>,
                Call(Var("f"), <<>>)))

\* local f = function(a, x) a; [f(1, error "x"), f(1, 2) tailstrict]
ProgArguments ==
    Local(<<Bind("f", Function(<<"a", "x">>, Var("a")))>>,
          Array(<<Apply(Var("f"), <<Num(1), Error(Str("x"))>>, FALSE),
                  Apply(Var("f"), <<Num(1), Num(2)>>, TRUE)>>))

\* std.filter(function(x) 2 <= x, [1, 2, 3, 1])
\*     + std.filter(function(x) error "x", [])
ProgFilter ==
    Binary(Call(BuiltinFunction(12, <<"func", "a">>),
                <<Function(<<"x">>, Binary(Num(2), "<=", Var("x"))),
                  Array(<<Num(1), Num(2), Num(3), Num(1)>>)>>),
           "+",
           Call(BuiltinFunction(12, <<"func", "a">>),
                <<Function(<<"x">>, Error(Str("x"))), Array(<<>>)>>))

\* std.filter(function(x) if x <= 1 then true else x, [1, 2, 3])
ProgFilterBad ==
    Call(BuiltinFunction(12, <<"func", "a">>),
         <<Function(<<"x">>, If(Binary(Var("x"), "<=", Num(1)), Bool(TRUE), Var("x"))),
           Array(<<Num(1), Num(2), Num(3)>>)>>)

\* std.extVar(name)
ExtVar(name) == Call(BuiltinFunction(23, <<"x">>), <<Str(name)>>)

\* [std.extVar("s"), std.extVar("c")]
ProgExtVar == Array(<<ExtVar("s"), ExtVar("c")>>)

\* std.extVar("u")
ProgExtVarUndefined == ExtVar("u")

\* ("x" + [1, "y"]) + "z"
ProgConcat ==
    Binary(Binary(Str("x"), "+", Array(<<Num(1), Str("y")>>)), "+", Str("z"))

\* { a: 1 } + "x"
ProgConcatLeft == Binary(Object(<<Plain("a", Num(1))>>, <<>>), "+", Str("x"))

\* "x" + { assert true, a: 1 }
ProgConcatInvariant ==
    Binary(Str("x"), "+", Object(<<Plain("a", Num(1))>>, <<Invariant(Bool(TRUE))>>))

\* { [null]: 1, a: 2, [null]: 3 }
ProgNullName ==
    Object(<<Field(Null, "INHERIT", Num(1)), Plain("a", Num(2)),
             Field(Null, "INHERIT", Num(3))>>, <<>>)

\* { a: 1, [2]: 2, b: 3 }
ProgBadName ==
    Object(<<Plain("a", Num(1)), Field(Num(2), "INHERIT", Num(2)), Plain("b", Num(3))>>,
           <<>>)

\* { a: 1, [null]: 0, ["a"]: 2 }
ProgDupName ==
    Object(<<Plain("a", Num(1)), Field(Null, "INHERIT", Num(0)), Plain("a", Num(2))>>,
           <<>>)

\* { [k]: 1 for k in ["a", "b", "a"] }
ProgCompDup ==
    ObjComp(Var("k"), Num(1), "k", Array(<<Str("a"), Str("b"), Str("a")>>))

\* { [k]: 1 for k in ["a", null] }
ProgCompNull ==
    ObjComp(Var("k"), Num(1), "k", Array(<<Str("a"), Null>>))

\* [true && false, false || true, false && error "x", true || error "x"]
ProgShortCircuit ==
    Array(<<Binary(Bool(TRUE), "&&", Bool(FALSE)), Binary(Bool(FALSE), "||", Bool(TRUE)),
            Binary(Bool(FALSE), "&&", Error(Str("x"))),
            Binary(Bool(TRUE), "||", Error(Str("x")))>>)

\* { a: 1 } + { a: super.a + 10, b: super.a }
ProgSuperSibling ==
    Binary(Object(<<Plain("a", Num(1))>>, <<>>), "+",
           Object(<<Plain("a", Binary(SuperIndex(Str("a")), "+", Num(10))),
                    Plain("b", SuperIndex(Str("a")))>>, <<>>))

\* { a: 1, b:: 2, c::: 3, f:: 4, g: 5 } + { a:: 10, b: 20, c: 30, f::: 40 } + { g: 50 }
ProgHidden ==
    Binary(Binary(Object(<<Plain("a", Num(1)), Field(Str("b"), "HIDDEN", Num(2)),
                           Field(Str("c"), "VISIBLE", Num(3)),
                           Field(Str("f"), "HIDDEN", Num(4)), Plain("g", Num(5))>>, <<>>),
                  "+",
                  Object(<<Field(Str("a"), "HIDDEN", Num(10)), Plain("b", Num(20)),
                           Plain("c", Num(30)), Field(Str("f"), "VISIBLE", Num(40))>>, <<>>)),
           "+", Object(<<Plain("g", Num(50))>>, <<>>))

\* ({ a: 1 } + { a:: 10 }).a
ProgHiddenIndex ==
    Dot(Binary(Object(<<Plain("a", Num(1))>>, <<>>), "+",
               Object(<<Field(Str("a"), "HIDDEN", Num(10))>>, <<>>)),
        "a")

\* { [k]: k for k in ["c", "a", "b"] }
ProgComprehension ==
    ObjComp(Var("k"), Var("k"), "k", Array(<<Str("c"), Str("a"), Str("b")>>))

\* local g = 1; ({ [k]: g for k in ["x"] } + { y: super.x }).y
ProgComprehensionIndex ==
    Local(<<Bind("g", Num(1))>>,
          Dot(Binary(ObjComp(Var("k"), Var("g"), "k", Array(<<Str("x")>>)), "+",
                     Object(<<Plain("y", SuperIndex(Str("x")))>>, <<>>)),
              "y"))

\* std.makeArray(2, function(i) i + 1) + [std.length([1]) tailstrict]
ProgBuiltins ==
    Binary(Call(BuiltinFunction(0, <<"sz", "func">>),
                <<Num(2), Function(<<"i">>, Binary(Var("i"), "+", Num(1)))>>),
           "+",
           Array(<<Apply(BuiltinFunction(14, <<"x">>), <<Array(<<Num(1)>>)>>, TRUE)>>))

\* { a: { assert true, b: 1 }, c: [{ assert true }, 2] }
ProgNestedInvariants ==
    Object(<<Plain("a", Object(<<Plain("b", Num(1))>>, <<Invariant(Bool(TRUE))>>)),
             Plain("c", Array(<<Object(<<>>, <<Invariant(Bool(TRUE))>>), Num(2)>>))>>,
           <<>>)

\* if true || false then { }.a else null
ProgMissingField ==
    If(Binary(Bool(TRUE), "||", Bool(FALSE)), Dot(Object(<<>>, <<>>), "a"), Null)

\* if false && true then null else error "x"
ProgError ==
    If(Binary(Bool(FALSE), "&&", Bool(TRUE)), Null, Error(Str("x")))

\* function() 1
ProgFunction == Function(<<>>, Num(1))

\* "s"
ProgString == Str("s")

\* [std.length({ a: 1, b:: 2 } + { c::: 3 }), std.length(function(a, f) 1),
\*  std.length("s")]
ProgLength ==
    Array(<<Call(BuiltinFunction(14, <<"x">>),
                 <<Binary(Object(<<Plain("a", Num(1)), Field(Str("b"), "HIDDEN", Num(2))>>,
                                 <<>>),
                          "+", Object(<<Field(Str("c"), "VISIBLE", Num(3))>>, <<>>))>>),
            Call(BuiltinFunction(14, <<"x">>), <<Function(<<"a", "f">>, Num(1))>>),
            Call(BuiltinFunction(14, <<"x">>), <<Str("s")>>)>>)

\* local f = function() error "x", g = f; g()
ProgNames ==
    Local(<<Bind("f", Function(<<>>, Error(Str("x")))), Bind("g", Var("f"))>>,
          Call(Var("g"), <<>>))

\* The file the program is read from.
MainFile == <<"main">>

\* [import "x", import "x", importstr "x", import "y"]
ProgImports ==
    Array(<<Import(MainFile, "x"), Import(MainFile, "x"), Importstr(MainFile, "x"),
            Import(MainFile, "y")>>)

ChainPrograms == {"tail", "tail_all", "deep", "tail_local"}

Programs ==
    ChainPrograms \cup
        {"manifest_inv", "index_inv_fail", "index_inv", "thunks", "lexical", "super",
         "comprehension", "comprehension_index", "builtins", "nested_inv", "missing",
         "error", "function", "super_sibling", "hidden",
         "hidden_index", "string", "imports", "length", "names", "no_super",
         "offsets", "mutual", "short", "args",
     "null_name", "bad_name", "dup_name", "comp_dup", "comp_null",
     "filter", "filter_bad", "extvar", "extvar_undef",
     "concat", "concat_left", "concat_inv"}

\* The program a run evaluates.
Program(c) ==
    CASE c.prog = "manifest_inv" -> ProgManifestInvariants
      [] c.prog = "index_inv_fail" -> ProgIndexInvariantFails
      [] c.prog = "index_inv" -> ProgIndexInvariants
      [] c.prog = "tail" -> ProgTail(c.n, FALSE)
      [] c.prog = "tail_all" -> ProgTail(c.n, TRUE)
      [] c.prog = "deep" -> ProgDeep(c.n)
      [] c.prog = "tail_local" -> ProgTailLocal(c.n)
      [] c.prog = "thunks" -> ProgThunks
      [] c.prog = "lexical" -> ProgLexicalSelf
      [] c.prog = "super" -> ProgSuper
      [] c.prog = "comprehension" -> ProgComprehension
      [] c.prog = "comprehension_index" -> ProgComprehensionIndex
      [] c.prog = "builtins" -> ProgBuiltins
      [] c.prog = "nested_inv" -> ProgNestedInvariants
      [] c.prog = "missing" -> ProgMissingField
      [] c.prog = "error" -> ProgError
      [] c.prog = "super_sibling" -> ProgSuperSibling
      [] c.prog = "hidden" -> ProgHidden
      [] c.prog = "hidden_index" -> ProgHiddenIndex
      [] c.prog = "string" -> ProgString
      [] c.prog = "imports" -> ProgImports
      [] c.prog = "length" -> ProgLength
      [] c.prog = "names" -> ProgNames
      [] c.prog = "no_super" -> ProgNoSuper
      [] c.prog = "offsets" -> ProgOffsets
      [] c.prog = "mutual" -> ProgMutual
      [] c.prog = "short" -> ProgShortCircuit
      [] c.prog = "args" -> ProgArguments
      [] c.prog = "null_name" -> ProgNullName
      [] c.prog = "bad_name" -> ProgBadName
      [] c.prog = "dup_name" -> ProgDupName
      [] c.prog = "comp_dup" -> ProgCompDup
      [] c.prog = "comp_null" -> ProgCompNull
      [] c.prog = "filter" -> ProgFilter
      [] c.prog = "filter_bad" -> ProgFilterBad
      [] c.prog = "extvar" -> ProgExtVar
      [] c.prog = "extvar_undef" -> ProgExtVarUndefined
      [] c.prog = "concat" -> ProgConcat
      [] c.prog = "concat_left" -> ProgConcatLeft
      [] c.prog = "concat_inv" -> ProgConcatInvariant
      [] OTHER -> ProgFunction

\* The entry points: jsonnet_vm_execute with and without string_output,
\* jsonnet_vm_execute_multi with and without it, jsonnet_vm_execute_stream.
Modes == {"json", "string", "multi", "multi_string", "stream"}

\* The programs that are run through every entry point.
ModePrograms == {"comprehension", "builtins", "hidden", "function", "string", "manifest_inv"}

\* The order of the addresses of the Identifier objects, which is the order
\* a BindingFrame (a map keyed by Identifier pointer) is iterated in: that
\* of the list Identifiers, or the reverse.
AddressOrders == {"up", "down"}

\* The programs that are run under every address order.
AddressPrograms == {"names"}

Configs ==
    {c \in [prog : Programs, n : 0..MaxN, limit : 1..MaxLimit, gc : 0..MaxGcPeriod,
            mode : Modes, addr : AddressOrders] :
        /\ c.prog \in ChainPrograms \/ c.n = 0
        /\ c.prog \in ModePrograms \/ c.mode = "json"
        /\ c.prog \in AddressPrograms \/ c.addr = "up"}

\* ------------------------------------------------- native activations
\* One activation of a C++ function that is waiting for a callee: fn names
\* it, pc the point it resumes at; init is evaluate's initial_stack_size;
\* ent, fields, i and acc are manifestJson's locals obj/arr, the sorted
\* fields still to emit, the number of elements emitted and the text so far.
Activation(fn, pc) ==
    [fn |-> fn, pc |-> pc, init |-> 0, ent |-> 0, fields |-> <<>>, i |-> 0, acc |-> <<>>]

Evaluate(init) == [Activation("evaluate", "run") EXCEPT !.init = init]

Token(tok, s, n) == [tok |-> tok, s |-> s, n |-> n]

NoEvent == [on |-> FALSE]

Init ==
    /\ cfg \in Configs
    /\ heap = <<>>
    /\ swept = {}
    /\ allocs = 0
    /\ stack = <<>>
    /\ calls = 0
    /\ scratch = VNull
    /\ ctl = [op |-> "eval", ast |-> Program(cfg)]
    /\ nat = <<Activation("execute", "evaluated"), Evaluate(0)>>
    /\ ret = <<>>
    /\ out = <<>>
    /\ err = ""
    /\ cachedImports = EmptyEnv
    /\ trace = <<>>
    /\ hist = [entered |-> EmptyEnv, done |-> {}, cached |-> 0, invRuns |-> EmptyEnv,
               unguarded |-> EmptyEnv, outer |-> EmptyEnv, lastIndex |-> NoEvent,
               oi |-> NoEvent, loads |-> <<>>, parsed |-> <<>>, imports |-> <<>>,
               concats |-> 0]

\* ------------------------------------------------------ control flow
\* "ast_ = e; goto recurse": the dispatch switch runs next, on e.
Goto(ast) == ctl' = [op |-> "eval", ast |-> ast] /\ err' = err

\* Leaving the switch: the unwinding loop runs next.
Break == ctl' = [op |-> "loop", ast |-> NoAst] /\ err' = err

\* throw makeError(loc, msg): the run ends with the runtime error msg.
Throw(msg) == ctl' = [op |-> "error", ast |-> NoAst] /\ err' = msg

\* throw makeError(loc, msg) where the location is followed.
ThrowAt(loc, msg) == ctl' = [op |-> "error", ast |-> loc] /\ err' = msg

\* The identifiers of the programs.
Identifiers == <<"a", "f", "func", "g", "i", "k", "m", "n", "sz", "x">>

\* The identifiers in the order a BindingFrame is iterated in, under the
\* address order addr.
BindingOrder(addr) ==
    IF addr = "up" THEN Identifiers
    ELSE [i \in DOMAIN Identifiers |-> Identifiers[Len(Identifiers) + 1 - i]]

RECURSIVE NameIn(_, _, _, _, _, _)
\* The loop of Stack::getName from frame i down: the name found last,
\* order being the order the bindings of a frame are iterated in.
NameIn(stk, h, i, e, name, order) ==
    IF i = 0 THEN name
    ELSE LET binds == stk[i].bindings
             hits == SelectSeq(order,
                               LAMBDA v : /\ v \in DOMAIN binds
                                          /\ h[binds[v]].filled
                                          /\ isHeap(h[binds[v]].content)
                                          /\ h[binds[v]].content.h = e)
             n2 == IF hits = <<>> THEN name ELSE hits[Len(hits)]
         IN  IF isCall(stk[i]) THEN n2 ELSE NameIn(stk, h, i - 1, e, n2, order)

\* Stack::getName for the context e of the CALL frame at from_here.
getName(stk, h, from_here, e, order) ==
    LET found == NameIn(stk, h, from_here - 1, e, "", order)
        name == IF found = "" THEN "anonymous" ELSE found
    IN  CASE h[e].kind \in {"simple", "comp", "ext"} -> "object <" \o name \o ">"
          [] h[e].kind = "thunk" -> "thunk <" \o h[e].name \o ">"
          [] h[e].body = NoAst -> "builtin function"
          [] OTHER -> "function <" \o name \o ">"

\* One entry of a stack trace; frame is history: the place on the stack of
\* the CALL frame the entry was made for (0 for the place of the failure).
TraceFrame(loc, i) == [location |-> loc, name |-> "", frame |-> i]

RECURSIVE TraceFromBottom(_, _, _, _, _)
\* A trace that lists the CALL frames from the bottom of the stack up.
TraceFromBottom(stk, h, i, stack_trace, order) ==
    IF i = 0 THEN stack_trace
    ELSE LET below == TraceFromBottom(stk, h, i - 1, stack_trace, order)
         IN  IF isCall(stk[i]) THEN Append(below, TraceFrame(stk[i].ast, i)) ELSE below

RECURSIVE TraceFrom(_, _, _, _, _)
\* The loop of Stack::makeError from frame i down.
TraceFrom(stk, h, i, stack_trace, order) ==
    IF i = 0 THEN stack_trace
    ELSE IF isCall(stk[i])
    THEN LET named == IF stk[i].context # 0
                      THEN [stack_trace EXCEPT ![Len(stack_trace)].name =
                                                   getName(stk, h, i, stk[i].context, order)]
                      ELSE stack_trace
         IN  TraceFrom(stk, h, i - 1, Append(named, TraceFrame(stk[i].ast, i)), order)
    ELSE TraceFrom(stk, h, i - 1, stack_trace, order)

\* Stack::makeError: the stack trace of the error thrown at loc.
makeError(stk, h, loc, order) ==
    TraceFrom(stk, h, Len(stk), <<TraceFrame(loc, 0)>>, order)

\* The trace of the RuntimeError, when the step throws one.
Traced ==
    trace' = IF ctl'.op = "error" /\ ctl.op # "error"
             THEN makeError(stack', heap', ctl'.ast, BindingOrder(cfg.addr))
             ELSE trace

\* stack.newFrame(kind, ast)
newFrame(stk, kind, ast) == Append(stk, Frame(kind, ast))

MaxStackError == "Max stack frames exceeded."

\* The outcome c of stack.newCall followed by "ast_ = body; goto recurse".
EnterCall(c, body) ==
    /\ stack' = c.stack
    /\ calls' = c.calls
    /\ IF c.ok THEN Goto(body) ELSE Throw(MaxStackError)

\* History: one more entry into the body of thunk th.
Entered(h, th) ==
    [h EXCEPT !.entered = Put(@, th, IF th \in DOMAIN @ THEN @[th] + 1 ELSE 1)]

\* History: a forcing of thunk th has completed.
Completed(h, th) == [h EXCEPT !.done = @ \cup {th}]

\* Forcing thunk th of heap h from the stack stk: a CALL frame in the
\* thunk's environment, then its body.  hst is the history so far.
\* History: the body of the function called by the top frame is entered.
BodyEntered(stk) == SetTop(stk, [Top(stk) EXCEPT !.ginv.ran = @ + 1])

\* A new call of a function goes straight to the function's body.
EnterBody(c, body) ==
    EnterCall(IF c.ok THEN [c EXCEPT !.stack = BodyEntered(@)] ELSE c, body)

Force(h, stk, ncalls, th, hst) ==
    LET c == newCall(stk, ncalls, cfg.limit, NoAst, th, h[th].self, h[th].offset,
                     h[th].upValues)
    IN  /\ EnterCall(c, h[th].body)
        /\ hist' = IF c.ok THEN Entered(hst, th) ELSE hst

Evaluating(kind) == ctl.op = "eval" /\ ctl.ast.k = kind

\* ------------------------------------------------- the dispatch switch
EvalApply ==
    /\ Evaluating("apply")
    /\ stack' = newFrame(stack, "APPLY_TARGET", ctl.ast)
    /\ Goto(ctl.ast.target)
    /\ UNCHANGED <<cfg, cachedImports, heap, swept, allocs, calls, scratch, nat, ret, out, hist>>
    /\ Traced

RECURSIVE ArrayElements(_, _, _, _, _, _)
\* The element thunks of an array literal, pushed onto the array arr.
ArrayElements(H, stk, scr, arr, els, sb) ==
    IF els = <<>> THEN H
    ELSE LET a == makeHeap(H, HeapThunk("array_element", sb.self, sb.offset, Head(els)),
                           stk, scr)
             h3 == [a.heap EXCEPT ![a.id].upValues = capture(stk, FreeVars(Head(els))),
                                  ![arr].elements = Append(@, a.id)]
         IN  ArrayElements([a EXCEPT !.heap = h3], stk, scr, arr, Tail(els), sb)

EvalArray ==
    /\ Evaluating("array")
    /\ LET a == makeHeap(TheHeap, HeapArray(<<>>), stack, scratch)
           scr == HeapValue("array", a.id)
       IN  /\ SetHeap(ArrayElements(a, stack, scr, a.id, ctl.ast.elements,
                                    getSelfBinding(stack)))
           /\ scratch' = scr
    /\ Break
    /\ UNCHANGED <<cfg, cachedImports, stack, calls, nat, ret, out, hist>>
    /\ Traced

EvalBinary ==
    /\ Evaluating("binary")
    /\ stack' = newFrame(stack, "BINARY_LEFT", ctl.ast)
    /\ Goto(ctl.ast.left)
    /\ UNCHANGED <<cfg, cachedImports, heap, swept, allocs, calls, scratch, nat, ret, out, hist>>
    /\ Traced

EvalBuiltinFunction ==
    /\ Evaluating("builtin")
    /\ LET a == makeHeap(TheHeap,
                         HeapClosure(EmptyEnv, 0, 0, ctl.ast.params, NoAst, ctl.ast.id),
                         stack, scratch)
       IN  SetHeap(a) /\ scratch' = HeapValue("function", a.id)
    /\ Break
    /\ UNCHANGED <<cfg, cachedImports, stack, calls, nat, ret, out, hist>>
    /\ Traced

EvalConditional ==
    /\ Evaluating("if")
    /\ stack' = newFrame(stack, "IF", ctl.ast)
    /\ Goto(ctl.ast.cond)
    /\ UNCHANGED <<cfg, cachedImports, heap, swept, allocs, calls, scratch, nat, ret, out, hist>>
    /\ Traced

EvalError ==
    /\ Evaluating("error")
    /\ stack' = newFrame(stack, "ERROR", ctl.ast)
    /\ Goto(ctl.ast.expr)
    /\ UNCHANGED <<cfg, cachedImports, heap, swept, allocs, calls, scratch, nat, ret, out, hist>>
    /\ Traced

EvalFunction ==
    /\ Evaluating("function")
    /\ LET env == capture(stack, FreeVars(ctl.ast))
           sb == getSelfBinding(stack)
           a == makeHeap(TheHeap,
                         HeapClosure(env, sb.self, sb.offset, ctl.ast.params,
                                     ctl.ast.body, -1),
                         stack, scratch)
       IN  SetHeap(a) /\ scratch' = HeapValue("function", a.id)
    /\ Break
    /\ UNCHANGED <<cfg, cachedImports, stack, calls, nat, ret, out, hist>>
    /\ Traced

\* ------------------------------------------------------------- imports
dir_name(file) == SubSeq(file, 1, Len(file) - 1)

\* The texts a file can hold when the import callback reads it.
Contents == {"{ a: 1 }", "importstr \"x\""}

\* The directory the import callback searches after the importing one.
LibDir == <<"lib">>

\* What one call of the import callback can return for the base directory
\* dir and the relative path rel: a failure with its reason, or the file
\* it found and the text it read there.
importCallback(dir, rel) ==
    {[success |-> FALSE, found_here |-> <<>>, content |-> "no match"]}
        \cup [success : {TRUE}, found_here : {dir \o <<rel>>, LibDir \o <<rel>>},
              content : Contents]

\* jsonnet_lex, jsonnet_parse, jsonnet_desugar and jsonnet_static_analysis
\* of the text content of the file found_here.
Parse(found_here, content) ==
    IF content = "{ a: 1 }" THEN Object(<<Plain("a", Num(1))>>, <<>>)
    ELSE Importstr(found_here, "x")

\* A null ImportCacheValue pointer, and a cache value.
NullImport == [null |-> TRUE, foundHere |-> <<>>, content |-> ""]
ImportCacheValue(foundHere, content) ==
    [null |-> FALSE, foundHere |-> foundHere, content |-> content]

\* The key of the import of file at a statement of the file location.
ImportKey(location, file) == <<dir_name(location), file>>

\* cachedImports[key]: a key that is new is entered with a null pointer.
CacheEntry(cache, key) == IF key \in DOMAIN cache THEN cache ELSE Put(cache, key, NullImport)

\* The message without the reason the callback gave.
CouldntOpenNoReason(path, input) == "Couldn't open import \"" \o path \o "\": "

\* The message of the error of a failed import.
CouldntOpen(path, input) == "Couldn't open import \"" \o path \o "\": " \o input

\* importString where the cache is not looked at.
importStringAlways(cache, location, file, res) ==
    LET key == ImportKey(location, file)
        c1 == CacheEntry(cache, key)
    IN  IF ~res.success
        THEN [ok |-> FALSE, called |-> TRUE, value |-> NullImport, cache |-> c1,
              msg |-> CouldntOpen(file, res.content)]
        ELSE LET v == ImportCacheValue(res.found_here, res.content)
             IN  [ok |-> TRUE, called |-> TRUE, value |-> v, cache |-> Put(c1, key, v),
                  msg |-> ""]

\* Interpreter::importString, res being what the import callback returns
\* if it is called: the value to use, the cache afterwards, whether the
\* callback was called, and the message of the error when it failed.
importString(cache, location, file, res) ==
    LET key == ImportKey(location, file)
        c1 == CacheEntry(cache, key)
    IN  IF ~c1[key].null
        THEN [ok |-> TRUE, called |-> FALSE, value |-> c1[key], cache |-> c1, msg |-> ""]
        ELSE IF ~res.success
        THEN [ok |-> FALSE, called |-> TRUE, value |-> NullImport, cache |-> c1,
              msg |-> CouldntOpen(file, res.content)]
        ELSE LET v == ImportCacheValue(res.found_here, res.content)
             IN  [ok |-> TRUE, called |-> TRUE, value |-> v, cache |-> Put(c1, key, v),
                  msg |-> ""]

\* Interpreter::import after importString returned r: the program parsed
\* from the text of the cache value.
import(r) == Parse(r.value.foundHere, r.value.content)

\* History: the calls of the import callback, with their outcome.
Loaded(hst, r, key) ==
    IF r.called THEN [hst EXCEPT !.loads = Append(@, [key |-> key, success |-> r.ok])]
    ELSE hst

\* History: the value an import statement evaluated to, when the CALL
\* frame f of one is left.
Returned(hst, f, v) ==
    IF f.ast.k = "import"
    THEN [hst EXCEPT !.imports =
              Append(@, [key |-> ImportKey(f.ast.location, f.ast.file), value |-> v])]
    ELSE hst

EvalImport ==
    /\ Evaluating("import")
    /\ \E res \in importCallback(dir_name(ctl.ast.location), ctl.ast.file) :
           LET r == importString(cachedImports, ctl.ast.location, ctl.ast.file, res)
               key == ImportKey(ctl.ast.location, ctl.ast.file)
           IN  /\ cachedImports' = r.cache
               /\ IF ~r.ok
                  THEN /\ ThrowAt(ctl.ast, r.msg)
                       /\ hist' = Loaded(hist, r, key)
                       /\ UNCHANGED <<stack, calls>>
                  ELSE /\ EnterCall(newCall(stack, calls, cfg.limit, ctl.ast, 0, 0, 0,
                                            EmptyEnv),
                                    import(r))
                       /\ hist' = [Loaded(hist, r, key) EXCEPT !.parsed = Append(@, key)]
    /\ UNCHANGED <<cfg, heap, swept, allocs, scratch, nat, ret, out>>
    /\ Traced

EvalImportstr ==
    /\ Evaluating("importstr")
    /\ \E res \in importCallback(dir_name(ctl.ast.location), ctl.ast.file) :
           LET r == importString(cachedImports, ctl.ast.location, ctl.ast.file, res)
               key == ImportKey(ctl.ast.location, ctl.ast.file)
           IN  /\ cachedImports' = r.cache
               /\ hist' = Loaded(hist, r, key)
               /\ IF ~r.ok
                  THEN /\ ThrowAt(ctl.ast, r.msg)
                       /\ UNCHANGED <<heap, swept, allocs, scratch>>
                  ELSE /\ LET a == makeHeap(TheHeap, HeapString(r.value.content), stack,
                                            scratch)
                          IN  SetHeap(a) /\ scratch' = HeapValue("string", a.id)
                       /\ Break
    /\ UNCHANGED <<cfg, stack, calls, nat, ret, out>>
    /\ Traced

EvalIndex ==
    /\ Evaluating("index")
    /\ stack' = newFrame(stack, "INDEX_TARGET", ctl.ast)
    /\ Goto(ctl.ast.target)
    /\ UNCHANGED <<cfg, cachedImports, heap, swept, allocs, calls, scratch, nat, ret, out, hist>>
    /\ Traced

RECURSIVE LocalThunks(_, _, _, _, _)
\* One thunk per bind, each bound in the top (LOCAL) frame as it is made.
LocalThunks(H, stk, scr, binds, sb) ==
    IF binds = <<>> THEN [H |-> H, stack |-> stk]
    ELSE LET b == Head(binds)
             a == makeHeap(H, HeapThunk(b.var, sb.self, sb.offset, b.body), stk, scr)
             s3 == SetTop(stk, [Top(stk) EXCEPT !.bindings = Put(@, b.var, a.id)])
         IN  LocalThunks(a, s3, scr, Tail(binds), sb)

RECURSIVE LocalCaptureOutside(_, _, _)
\* A capture that does not see the LOCAL frame of the thunks.
LocalCaptureOutside(h, stk, binds) ==
    IF binds = <<>> THEN h
    ELSE LocalCaptureOutside([h EXCEPT ![Top(stk).bindings[Head(binds).var]].upValues =
                                           capture(Pop(stk), FreeVars(Head(binds).body))],
                             stk, Tail(binds))

RECURSIVE LocalCapture(_, _, _)
\* The second loop: each thunk captures its environment, the new thunks included.
LocalCapture(h, stk, binds) ==
    IF binds = <<>> THEN h
    ELSE LocalCapture([h EXCEPT ![Top(stk).bindings[Head(binds).var]].upValues =
                                    capture(stk, FreeVars(Head(binds).body))],
                      stk, Tail(binds))

EvalLocal ==
    /\ Evaluating("local")
    /\ LET s1 == newFrame(stack, "LOCAL", ctl.ast)
           r == LocalThunks(TheHeap, s1, scratch, ctl.ast.binds, getSelfBinding(s1))
       IN  /\ SetHeap([r.H EXCEPT !.heap = LocalCapture(r.H.heap, r.stack, ctl.ast.binds)])
           /\ stack' = r.stack
    /\ Goto(ctl.ast.body)
    /\ UNCHANGED <<cfg, cachedImports, calls, scratch, nat, ret, out, hist>>
    /\ Traced

EvalLiteralBoolean ==
    /\ Evaluating("bool")
    /\ scratch' = makeBoolean(ctl.ast.b)
    /\ Break
    /\ UNCHANGED <<cfg, cachedImports, heap, swept, allocs, stack, calls, nat, ret, out, hist>>
    /\ Traced

EvalLiteralNumber ==
    /\ Evaluating("num")
    /\ scratch' = makeDouble(ctl.ast.n)
    /\ Break
    /\ UNCHANGED <<cfg, cachedImports, heap, swept, allocs, stack, calls, nat, ret, out, hist>>
    /\ Traced

EvalLiteralString ==
    /\ Evaluating("str")
    /\ LET a == makeHeap(TheHeap, HeapString(ctl.ast.s), stack, scratch)
       IN  SetHeap(a) /\ scratch' = HeapValue("string", a.id)
    /\ Break
    /\ UNCHANGED <<cfg, cachedImports, stack, calls, nat, ret, out, hist>>
    /\ Traced

EvalLiteralNull ==
    /\ Evaluating("null")
    /\ scratch' = VNull
    /\ Break
    /\ UNCHANGED <<cfg, cachedImports, heap, swept, allocs, stack, calls, nat, ret, out, hist>>
    /\ Traced

EvalDesugaredObject ==
    /\ Evaluating("object")
    /\ IF ctl.ast.fields = <<>>
       THEN LET a == makeHeap(TheHeap,
                              HeapSimpleObject(capture(stack, FreeVars(ctl.ast)), EmptyEnv,
                                               ctl.ast.asserts),
                              stack, scratch)
            IN  /\ SetHeap(a)
                /\ scratch' = HeapValue("object", a.id)
                /\ Break
                /\ UNCHANGED stack
       ELSE /\ stack' = Append(stack, [Frame("OBJECT", ctl.ast) EXCEPT !.fit = 1])
            /\ Goto(ctl.ast.fields[1].name)
            /\ UNCHANGED <<heap, swept, allocs, scratch>>
    /\ UNCHANGED <<cfg, cachedImports, calls, nat, ret, out, hist>>
    /\ Traced

EvalObjectComprehensionSimple ==
    /\ Evaluating("objcomp")
    /\ stack' = newFrame(stack, "OBJECT_COMP_ARRAY", ctl.ast)
    /\ Goto(ctl.ast.array)
    /\ UNCHANGED <<cfg, cachedImports, heap, swept, allocs, calls, scratch, nat, ret, out, hist>>
    /\ Traced

EvalSelf ==
    /\ Evaluating("self")
    /\ scratch' = HeapValue("object", getSelfBinding(stack).self)
    /\ Break
    /\ UNCHANGED <<cfg, cachedImports, heap, swept, allocs, stack, calls, nat, ret, out, hist>>
    /\ Traced

EvalSuperIndex ==
    /\ Evaluating("superindex")
    /\ stack' = newFrame(stack, "SUPER_INDEX", ctl.ast)
    /\ Goto(ctl.ast.index)
    /\ UNCHANGED <<cfg, cachedImports, heap, swept, allocs, calls, scratch, nat, ret, out, hist>>
    /\ Traced

\* History: one more read of a filled thunk's cached content.
CachedRead(h) == [h EXCEPT !.cached = 1]

\* A test of the cache that never finds a thunk filled.
NeverFilled(h, th) == FALSE

\* A test that finds every thunk filled.
AlwaysFilled(h, th) == TRUE

\* thunk->filled
ThunkFilled(h, th) == h[th].filled

EvalVar ==
    /\ Evaluating("var")
    /\ LET thunk == lookUpVar(stack, ctl.ast.id) IN
       IF thunk = 0
       THEN /\ Throw("INTERNAL ERROR: Could not bind variable")
            /\ UNCHANGED <<stack, calls, scratch, hist>>
       ELSE IF ThunkFilled(heap, thunk)
            THEN /\ scratch' = heap[thunk].content
                 /\ hist' = CachedRead(hist)
                 /\ Break
                 /\ UNCHANGED <<stack, calls>>
            ELSE /\ Force(heap, stack, calls, thunk, hist)
                 /\ UNCHANGED scratch
    /\ UNCHANGED <<cfg, cachedImports, heap, swept, allocs, nat, ret, out>>
    /\ Traced

\* ------------------------------------------------- the unwinding loop
\* A loop that also runs when the stack is at initial_stack_size.
UnwindingFromInitial(kind) ==
    /\ ctl.op = "loop"
    /\ Len(stack) > 0
    /\ Len(stack) >= Top(nat).init
    /\ Top(stack).kind = kind

\* The loop of evaluate runs while the stack is above initial_stack_size;
\* f is the top frame.
Unwinding(kind) ==
    /\ ctl.op = "loop"
    /\ Len(stack) > Top(nat).init
    /\ Top(stack).kind = kind

\* popframe: the top frame is removed and the loop continues.
PopFrame ==
    /\ stack' = pop(stack, calls).stack
    /\ calls' = pop(stack, calls).calls
    /\ Break

type_str(v) == v.t

RECURSIVE ArgumentThunks(_, _, _, _, _, _)
\* One thunk per argument, pushed onto the thunks of the top frame.
ArgumentThunks(H, stk, scr, params, args, i) ==
    IF i > Len(args) THEN [H |-> H, stack |-> stk]
    ELSE LET sb == getSelfBinding(stk)
             a == makeHeap(H, HeapThunk(params[i], sb.self, sb.offset, args[i]), stk, scr)
             h3 == [a.heap EXCEPT ![a.id].upValues = capture(stk, FreeVars(args[i]))]
             s3 == SetTop(stk, [Top(stk) EXCEPT !.thunks = Append(@, a.id)])
         IN  ArgumentThunks([a EXCEPT !.heap = h3], s3, scr, params, args, i + 1)

RECURSIVE BindParams(_, _, _, _)
BindParams(env, params, args, i) ==
    IF i > Len(params) THEN env
    ELSE BindParams(Put(env, params[i], args[i]), params, args, i + 1)

ApplyTarget ==
    /\ Unwinding("APPLY_TARGET")
    /\ LET ast == Top(stack).ast
           func == heap[scratch.h]
       IN
       IF scratch.t # "function"
       THEN /\ Throw("Only functions can be called, got " \o type_str(scratch))
            /\ UNCHANGED <<heap, swept, allocs, stack, calls, hist>>
       ELSE IF Len(ast.args) # Len(func.params)
       THEN /\ Throw("Expected a different number of arguments.")
            /\ UNCHANGED <<heap, swept, allocs, stack, calls, hist>>
       ELSE LET r == ArgumentThunks(TheHeap, stack, scratch, func.params, ast.args, 1)
                args == Top(r.stack).thunks
                s1 == pop(r.stack, calls).stack
            IN
            /\ SetHeap(r.H)
            /\ IF func.body = NoAst
               THEN /\ stack' = Append(s1, [Frame("BUILTIN_FORCE_THUNKS", ast) EXCEPT
                                               !.thunks = args, !.val = scratch])
                    /\ Break
                    /\ UNCHANGED <<calls, hist>>
               ELSE LET c == newCall(s1, calls, cfg.limit, ast, scratch.h, func.self,
                                     func.offset,
                                     BindParams(func.upValues, func.params, args, 1))
                    IN
                    IF ~c.ok
                    THEN EnterCall(c, func.body) /\ UNCHANGED hist
                    ELSE IF ast.tailstrict
                    THEN IF Len(args) = 0
                         THEN /\ EnterCall([c EXCEPT !.stack = BodyEntered(SetTop(@,
                                               [Top(@) EXCEPT !.tailCall = TRUE]))],
                                           func.body)
                              /\ UNCHANGED hist
                         ELSE /\ stack' = SetTop(c.stack,
                                              [Top(c.stack) EXCEPT !.tailCall = TRUE,
                                                   !.thunks = args, !.val = scratch])
                              /\ calls' = c.calls
                              /\ Break
                              /\ UNCHANGED hist
                    ELSE /\ EnterBody(c, func.body)
                         /\ UNCHANGED hist
    /\ UNCHANGED <<cfg, cachedImports, scratch, nat, ret, out>>
    /\ Traced

\* A BINARY_LEFT that goes on to the right operand whatever the left one.
BinaryLeftEager ==
    /\ Unwinding("BINARY_LEFT")
    /\ stack' = SetTop(stack, [Top(stack) EXCEPT !.kind = "BINARY_RIGHT", !.val = scratch])
    /\ Goto(Top(stack).ast.right)
    /\ UNCHANGED <<cfg, cachedImports, heap, swept, allocs, calls, scratch, nat, ret, out, hist>>
    /\ Traced

BinaryLeft ==
    /\ Unwinding("BINARY_LEFT")
    /\ LET ast == Top(stack).ast
           lhs == scratch
       IN
       IF lhs.t = "boolean" /\ ast.op = "&&" /\ lhs.n = 0
       THEN scratch' = makeBoolean(FALSE) /\ PopFrame
       ELSE IF lhs.t = "boolean" /\ ast.op = "||" /\ lhs.n = 1
       THEN scratch' = makeBoolean(TRUE) /\ PopFrame
       ELSE /\ stack' = SetTop(stack, [Top(stack) EXCEPT !.kind = "BINARY_RIGHT",
                                                          !.val = lhs])
            /\ Goto(ast.right)
            /\ UNCHANGED <<calls, scratch>>
    /\ UNCHANGED <<cfg, cachedImports, heap, swept, allocs, nat, ret, out, hist>>
    /\ Traced

\* The operators of the programs on two numbers; the shifts, the bitwise
\* operators and the division are not among them.
NumberOps == {"+", "-", "*", "<=", ">=", "<", ">"}

BinaryNumber(op, l, r) ==
    CASE op = "+" -> makeDouble(l + r)
      [] op = "-" -> makeDouble(l - r)
      [] op = "*" -> makeDouble(l * r)
      [] op = "<=" -> makeBoolean(l <= r)
      [] op = ">=" -> makeBoolean(l >= r)
      [] op = "<" -> makeBoolean(l < r)
      [] op = ">" -> makeBoolean(l > r)

BinaryRight ==
    /\ Unwinding("BINARY_RIGHT")
    /\ LET ast == Top(stack).ast
           lhs == Top(stack).val
           rhs == scratch
       IN
       IF (lhs.t = "string" \/ rhs.t = "string") /\ ast.op = "+"
       THEN /\ stack' = SetTop(stack, [Top(stack) EXCEPT !.kind = "STRING_CONCAT",
                                                          !.val2 = rhs])
            /\ Break
            /\ UNCHANGED <<heap, swept, allocs, calls, scratch>>
       ELSE IF lhs.t # rhs.t
       THEN /\ Throw("Binary operator requires matching types.")
            /\ UNCHANGED <<heap, swept, allocs, stack, calls, scratch>>
       ELSE IF lhs.t = "array" /\ ast.op = "+"
       THEN LET a == makeHeap(TheHeap,
                              HeapArray(heap[lhs.h].elements \o heap[rhs.h].elements),
                              stack, scratch)
            IN  SetHeap(a) /\ scratch' = HeapValue("array", a.id) /\ PopFrame
       ELSE IF lhs.t = "object" /\ ast.op = "+"
       THEN LET a == makeHeap(TheHeap, HeapExtendedObject(lhs.h, rhs.h), stack, scratch)
            IN  SetHeap(a) /\ scratch' = HeapValue("object", a.id) /\ PopFrame
       ELSE IF lhs.t = "boolean" /\ ast.op \in {"&&", "||"}
       THEN /\ scratch' = makeBoolean(IF ast.op = "&&" THEN lhs.n = 1 /\ rhs.n = 1
                                      ELSE lhs.n = 1 \/ rhs.n = 1)
            /\ PopFrame
            /\ UNCHANGED <<heap, swept, allocs>>
       ELSE IF lhs.t = "number" /\ ast.op \in NumberOps
       THEN /\ scratch' = BinaryNumber(ast.op, lhs.n, rhs.n)
            /\ PopFrame
            /\ UNCHANGED <<heap, swept, allocs>>
       ELSE /\ Throw("Binary operator does not operate on " \o type_str(lhs))
            /\ UNCHANGED <<heap, swept, allocs, stack, calls, scratch>>
    /\ UNCHANGED <<cfg, cachedImports, nat, ret, out, hist>>
    /\ Traced

\* History: one more for key k of the counting function c.
Count(c, k) == Put(c, k, IF k \in DOMAIN c THEN c[k] + 1 ELSE 1)

\* History: an INVARIANTS frame of object obj is on the stack.
HasInvariantsFrame(stk, obj) ==
    \E i \in DOMAIN stk : stk[i].kind = "INVARIANTS" /\ stk[i].self = obj

\* History: some frame on the stack evaluates with obj as its self.
Inside(stk, obj) == \E i \in DOMAIN stk : stk[i].self = obj

\* History: an index operation on obj starts from the stack stk.
IndexStarted(h, stk, obj) ==
    [h EXCEPT !.unguarded = IF HasInvariantsFrame(stk, obj) THEN @ ELSE Count(@, obj),
              !.outer = IF Inside(stk, obj) THEN @ ELSE Count(@, obj)]

\* History: the n-th invariant thunk of obj is forced by an index operation.
InvariantRun(h, obj, n) == [h EXCEPT !.invRuns = Count(@, <<obj, n>>)]

\* History: objectIndex was called for field f of root from super-offset k
\* with a stack of the given depth; r is what it returned.
ObjectIndexed(h, root, f, k, depth, r) ==
    [h EXCEPT !.oi = [on |-> TRUE, root |-> root, f |-> f, k |-> k, depth |-> depth,
                      exists |-> r.exists,
                      pushed |-> r.exists /\ r.call.ok,
                      frame |-> IF r.exists /\ r.call.ok THEN Top(r.call.stack)
                                ELSE Frame("none", NoAst)]]

\* An objectIndex that binds self to the leaf holding the field.
objectIndexLeafSelf(h, stk, ncalls, lim, loc, obj, f, offset) ==
    LET r == findObject(h, f, obj, offset, 0)
        found == h[r.found]
    IN  IF r.found = 0 THEN [exists |-> FALSE]
        ELSE IF found.kind = "simple"
        THEN [exists |-> TRUE, body |-> found.fields[f].body,
              call |-> newCall(stk, ncalls, lim, loc, r.found, r.found, r.counter,
                               found.upValues)]
        ELSE [exists |-> TRUE, body |-> found.value,
              call |-> newCall(stk, ncalls, lim, loc, r.found, r.found, r.counter,
                               Put(found.upValues, found.id, found.compValues[f]))]

\* An objectIndex that counts the leaf found among the leaves passed.
objectIndexNextOffset(h, stk, ncalls, lim, loc, obj, f, offset) ==
    LET r == findObject(h, f, obj, offset, 0)
        found == h[r.found]
    IN  IF r.found = 0 THEN [exists |-> FALSE]
        ELSE IF found.kind = "simple"
        THEN [exists |-> TRUE, body |-> found.fields[f].body,
              call |-> newCall(stk, ncalls, lim, loc, r.found, obj, r.counter + 1,
                               found.upValues)]
        ELSE [exists |-> TRUE, body |-> found.value,
              call |-> newCall(stk, ncalls, lim, loc, r.found, obj, r.counter + 1,
                               Put(found.upValues, found.id, found.compValues[f]))]

\* An objectIndex that leaves the loop variable of a comprehension unbound.
objectIndexUnbound(h, stk, ncalls, lim, loc, obj, f, offset) ==
    LET r == findObject(h, f, obj, offset, 0)
        found == h[r.found]
    IN  IF r.found = 0 THEN [exists |-> FALSE]
        ELSE IF found.kind = "simple"
        THEN [exists |-> TRUE, body |-> found.fields[f].body,
              call |-> newCall(stk, ncalls, lim, loc, r.found, obj, r.counter,
                               found.upValues)]
        ELSE [exists |-> TRUE, body |-> found.value,
              call |-> newCall(stk, ncalls, lim, loc, r.found, obj, r.counter,
                               found.upValues)]

\* Interpreter::objectIndex: exists is FALSE when "Field does not exist" is
\* thrown; otherwise call is the outcome of its newCall and body the
\* expression to evaluate.
objectIndex(h, stk, ncalls, lim, loc, obj, f, offset) ==
    LET r == findObject(h, f, obj, offset, 0)
        found == h[r.found]
    IN  IF r.found = 0 THEN [exists |-> FALSE]
        ELSE IF found.kind = "simple"
        THEN [exists |-> TRUE, body |-> found.fields[f].body,
              call |-> newCall(stk, ncalls, lim, loc, r.found, obj, r.counter,
                               found.upValues)]
        ELSE [exists |-> TRUE, body |-> found.value,
              call |-> newCall(stk, ncalls, lim, loc, r.found, obj, r.counter,
                               Put(found.upValues, found.id, found.compValues[f]))]

NoField(f) == "Field does not exist: " \o f

RECURSIVE MakeArrayElements(_, _, _, _, _, _, _)
\* The loop of the makeArray builtin: elements is the vector filled so far.
MakeArrayElements(H, stk, scr, func, i, sz, elements) ==
    IF i >= sz THEN [H |-> H, stack |-> stk, elements |-> elements]
    ELSE LET a == makeHeap(H, HeapThunk("array_element", func.self, func.offset, func.body),
                           stk, scr)
             s3 == SetTop(stk, [Top(stk) EXCEPT !.thunks = Append(@, a.id)])
             h3 == [a.heap EXCEPT ![a.id].upValues = func.upValues]
             b == makeHeap([a EXCEPT !.heap = h3], HeapThunk(func.params[1], 0, 0, NoAst),
                           s3, scr)
             h4 == [fill(b.heap, b.id, makeDouble(i)) EXCEPT
                        ![a.id].upValues = Put(@, func.params[1], b.id)]
         IN  MakeArrayElements([b EXCEPT !.heap = h4], s3, scr, func, i + 1, sz,
                               Append(elements, a.id))

\* A length that counts the hidden fields of an object too.
lengthOfAllFields(h, v) ==
    CASE v.t = "object" -> Cardinality(objectFields(h, v.h, FALSE))
      [] v.t = "array" -> Len(h[v.h].elements)
      [] v.t = "string" -> Len(h[v.h].value)
      [] OTHER -> Len(h[v.h].params)

\* The number the length builtin returns for an object, an array, a string
\* or a function.
length(h, v) ==
    CASE v.t = "object" -> Cardinality(objectFields(h, v.h, TRUE))
      [] v.t = "array" -> Len(h[v.h].elements)
      [] v.t = "string" -> Len(h[v.h].value)
      [] OTHER -> Len(h[v.h].params)

\* VmExt: an external variable, its text being code or a plain string.
VmExt(data, isCode) == [data |-> data, isCode |-> isCode]

\* The external variables the interpreter is constructed with.
ExternalVars == Put(Put(EmptyEnv, "s", VmExt("1 + 2", FALSE)), "c", VmExt("1 + 2", TRUE))

\* jsonnet_lex, jsonnet_parse, jsonnet_desugar and jsonnet_static_analysis
\* of the text of the external variable var.
ParseExt(var, data) ==
    IF data = "1 + 2" THEN Binary(Num(1), "+", Num(2)) ELSE Null

\* An external variable that is never taken for code.
isCodeNever(ext) == FALSE

\* ext.isCode
isCode(ext) == ext.isCode

\* A test that takes the last argument thunk for forced.
ThunksLeftButLast(f) == f.elementId + 1 < Len(f.thunks)

\* f.elementId < f.thunks.size(): frame f has argument thunks yet to force.
ThunksLeft(f) == f.elementId < Len(f.thunks)

BuiltinForceThunks ==
    /\ Unwinding("BUILTIN_FORCE_THUNKS")
    /\ LET f == Top(stack)
           func == heap[f.val.h]
           args == [i \in 1..Len(f.thunks) |-> heap[f.thunks[i]].content]
       IN
       IF ~ThunksLeft(f)
       THEN /\ UNCHANGED hist
            /\ CASE func.builtin = 0 ->
                    IF Len(args) # 2 \/ args[1].t # "number" \/ args[2].t # "function"
                    THEN /\ Throw("makeArray: bad arguments")
                         /\ UNCHANGED <<heap, swept, allocs, stack, calls, scratch>>
                    ELSE IF args[1].n < 0
                    THEN /\ Throw("makeArray requires size >= 0")
                         /\ UNCHANGED <<heap, swept, allocs, stack, calls, scratch>>
                    ELSE IF Len(heap[args[2].h].params) # 1
                    THEN /\ Throw("makeArray function must take 1 param")
                         /\ UNCHANGED <<heap, swept, allocs, stack, calls, scratch>>
                    ELSE LET r == MakeArrayElements(TheHeap, stack, scratch,
                                                    heap[args[2].h], 0, args[1].n, <<>>)
                             a == makeHeap(r.H, HeapArray(r.elements), r.stack, scratch)
                         IN  /\ SetHeap(a)
                             /\ scratch' = HeapValue("array", a.id)
                             /\ PopFrame
                 [] func.builtin = 12 ->
                    IF Len(args) # 2 \/ args[1].t # "function" \/ args[2].t # "array"
                    THEN /\ Throw("filter: bad arguments")
                         /\ UNCHANGED <<heap, swept, allocs, stack, calls, scratch>>
                    ELSE IF Len(heap[args[1].h].params) # 1
                    THEN /\ Throw("filter function takes 1 parameter.")
                         /\ UNCHANGED <<heap, swept, allocs, stack, calls, scratch>>
                    ELSE IF Len(heap[args[2].h].elements) = 0
                    THEN LET a == makeHeap(TheHeap, HeapArray(<<>>), stack, scratch)
                         IN  /\ SetHeap(a)
                             /\ scratch' = HeapValue("array", a.id)
                             /\ PopFrame
                    ELSE LET fn == heap[args[1].h]
                             s1 == SetTop(stack, [f EXCEPT !.kind = "BUILTIN_FILTER",
                                                      !.val = args[1], !.val2 = args[2],
                                                      !.thunks = <<>>, !.elementId = 0])
                             c == newCall(s1, calls, cfg.limit, f.ast, args[1].h, fn.self,
                                          fn.offset,
                                          Put(fn.upValues, fn.params[1],
                                              heap[args[2].h].elements[1]))
                         IN  /\ EnterBody(c, fn.body)
                             /\ UNCHANGED <<heap, swept, allocs, scratch>>
                 [] func.builtin = 23 ->
                    IF Len(args) # 1 \/ args[1].t # "string"
                    THEN /\ Throw("extVar: bad arguments")
                         /\ UNCHANGED <<heap, swept, allocs, stack, calls, scratch>>
                    ELSE IF heap[args[1].h].value \notin DOMAIN ExternalVars
                    THEN /\ Throw("Undefined external variable: " \o heap[args[1].h].value)
                         /\ UNCHANGED <<heap, swept, allocs, stack, calls, scratch>>
                    ELSE LET var == heap[args[1].h].value
                             ext == ExternalVars[var]
                         IN  IF isCode(ext)
                             THEN /\ Goto(ParseExt(var, ext.data))
                                  /\ stack' = pop(stack, calls).stack
                                  /\ calls' = pop(stack, calls).calls
                                  /\ UNCHANGED <<heap, swept, allocs, scratch>>
                             ELSE LET a == makeHeap(TheHeap, HeapString(ext.data), stack,
                                                    scratch)
                                  IN  /\ SetHeap(a)
                                      /\ scratch' = HeapValue("string", a.id)
                                      /\ PopFrame
                 [] func.builtin = 14 ->
                    IF Len(args) # 1
                    THEN /\ Throw("length takes 1 parameter.")
                         /\ UNCHANGED <<heap, swept, allocs, stack, calls, scratch>>
                    ELSE IF args[1].t \notin {"object", "array", "string", "function"}
                    THEN /\ Throw("length operates on strings, objects, and arrays, got "
                                  \o type_str(args[1]))
                         /\ UNCHANGED <<heap, swept, allocs, stack, calls, scratch>>
                    ELSE /\ scratch' = makeDouble(length(heap, args[1]))
                         /\ PopFrame
                         /\ UNCHANGED <<heap, swept, allocs>>
                 [] OTHER ->
                    /\ Throw("INTERNAL ERROR: Unrecognized builtin")
                    /\ UNCHANGED <<heap, swept, allocs, stack, calls, scratch>>
       ELSE LET th == f.thunks[f.elementId + 1]
                s1 == SetTop(stack, [f EXCEPT !.elementId = @ + 1])
            IN  /\ IF ~ThunkFilled(heap, th)
                   THEN Force(heap, s1, calls, th, hist)
                   ELSE PopFrame /\ UNCHANGED hist
                /\ UNCHANGED <<heap, swept, allocs, scratch>>
    /\ UNCHANGED <<cfg, cachedImports, nat, ret, out>>
    /\ Traced

\* A filter that keeps the element whatever the function returned.
BuiltinFilterAll ==
    /\ Unwinding("BUILTIN_FILTER")
    /\ LET f == Top(stack)
           func == heap[f.val.h]
           arr == heap[f.val2.h]
           s1 == SetTop(stack, [f EXCEPT !.thunks = Append(@, arr.elements[f.elementId + 1]),
                                    !.elementId = @ + 1])
       IN
       IF scratch.t # "boolean"
       THEN /\ Throw("filter function must return boolean, got: " \o type_str(scratch))
            /\ UNCHANGED <<heap, swept, allocs, stack, calls, scratch>>
       ELSE IF f.elementId + 1 = Len(arr.elements)
       THEN LET a == makeHeap(TheHeap, HeapArray(Top(s1).thunks), s1, scratch)
            IN  /\ SetHeap(a)
                /\ scratch' = HeapValue("array", a.id)
                /\ stack' = pop(s1, calls).stack
                /\ calls' = pop(s1, calls).calls
                /\ Break
       ELSE LET c == newCall(s1, calls, cfg.limit, f.ast, f.val.h, func.self, func.offset,
                             Put(func.upValues, func.params[1],
                                 arr.elements[f.elementId + 2]))
            IN  /\ EnterBody(c, func.body)
                /\ UNCHANGED <<heap, swept, allocs, scratch>>
    /\ UNCHANGED <<cfg, cachedImports, nat, ret, out, hist>>
    /\ Traced

BuiltinFilter ==
    /\ Unwinding("BUILTIN_FILTER")
    /\ LET f == Top(stack)
           func == heap[f.val.h]
           arr == heap[f.val2.h]
           s1 == SetTop(stack, [f EXCEPT !.thunks = IF scratch.n = 1
                                                   THEN Append(@, arr.elements[f.elementId + 1])
                                                   ELSE @,
                                    !.elementId = @ + 1])
       IN
       IF scratch.t # "boolean"
       THEN /\ Throw("filter function must return boolean, got: " \o type_str(scratch))
            /\ UNCHANGED <<heap, swept, allocs, stack, calls, scratch>>
       ELSE IF f.elementId + 1 = Len(arr.elements)
       THEN LET a == makeHeap(TheHeap, HeapArray(Top(s1).thunks), s1, scratch)
            IN  /\ SetHeap(a)
                /\ scratch' = HeapValue("array", a.id)
                /\ stack' = pop(s1, calls).stack
                /\ calls' = pop(s1, calls).calls
                /\ Break
       ELSE LET c == newCall(s1, calls, cfg.limit, f.ast, f.val.h, func.self, func.offset,
                             Put(func.upValues, func.params[1],
                                 arr.elements[f.elementId + 2]))
            IN  /\ EnterBody(c, func.body)
                /\ UNCHANGED <<heap, swept, allocs, scratch>>
    /\ UNCHANGED <<cfg, cachedImports, nat, ret, out, hist>>
    /\ Traced

FrameCall ==
    /\ Unwinding("CALL")
    /\ LET f == Top(stack)
           context == IF f.context = 0 THEN [kind |-> "none"] ELSE heap[f.context]
       IN
       IF context.kind = "thunk"
       THEN /\ heap' = fill(heap, f.context, scratch)
            /\ hist' = Completed(hist, f.context)
            /\ PopFrame
       ELSE /\ UNCHANGED heap
            /\ IF context.kind = "closure" /\ ThunksLeft(f)
               THEN LET th == f.thunks[f.elementId + 1]
                        s1 == SetTop(stack, [f EXCEPT !.elementId = @ + 1])
                    IN  IF ~ThunkFilled(heap, th)
                        THEN Force(heap, s1, calls, th, hist)
                        ELSE PopFrame /\ UNCHANGED hist
               ELSE IF context.kind = "closure" /\ Len(f.thunks) # 0
               THEN /\ stack' = BodyEntered(SetTop(stack, [f EXCEPT !.thunks = <<>>,
                                                                     !.elementId = 0]))
                    /\ Goto(context.body)
                    /\ UNCHANGED <<calls, hist>>
               ELSE PopFrame /\ hist' = Returned(hist, f, scratch)
    /\ UNCHANGED <<cfg, cachedImports, swept, allocs, scratch, nat, ret, out>>
    /\ Traced

FrameError ==
    /\ Unwinding("ERROR")
    /\ IF scratch.t # "string"
       THEN Throw("Error message must be string, got " \o type_str(scratch))
       ELSE Throw(heap[scratch.h].value)
    /\ UNCHANGED <<cfg, cachedImports, heap, swept, allocs, stack, calls, scratch, nat, ret, out, hist>>
    /\ Traced

FrameIf ==
    /\ Unwinding("IF")
    /\ IF scratch.t # "boolean"
       THEN /\ Throw("Condition must be boolean, got " \o type_str(scratch))
            /\ UNCHANGED <<stack, calls>>
       ELSE /\ Goto(IF scratch.n = 1 THEN Top(stack).ast.branchTrue
                    ELSE Top(stack).ast.branchFalse)
            /\ stack' = pop(stack, calls).stack
            /\ calls' = pop(stack, calls).calls
    /\ UNCHANGED <<cfg, cachedImports, heap, swept, allocs, scratch, nat, ret, out, hist>>
    /\ Traced

NoSuper == "Attempt to use super when there is no super class."

\* A super that starts at the leaf of the field it is used in.
SuperOffsetSame(sb) == sb.offset

\* "stack.getSelfBinding(self, offset); offset++": the leaf super starts at.
SuperOffset(sb) == sb.offset + 1

\* A test that lets the offset reach the number of leaves.
NoSuperClassPastEnd(h, sb) == SuperOffset(sb) > countLeaves(h, sb.self)

\* "if (offset >= countLeaves(self))", offset being the one bumped.
NoSuperClass(h, sb) == SuperOffset(sb) >= countLeaves(h, sb.self)

FrameSuperIndex ==
    /\ Unwinding("SUPER_INDEX")
    /\ LET sb == getSelfBinding(stack)
           offset == SuperOffset(sb)
           p == pop(stack, calls)
           name == heap[scratch.h].value
           r == objectIndex(heap, p.stack, p.calls, cfg.limit, Top(stack).ast, sb.self,
                            name, offset)
       IN
       IF NoSuperClass(heap, sb)
       THEN Throw(NoSuper) /\ UNCHANGED <<stack, calls, hist>>
       ELSE IF scratch.t # "string"
       THEN /\ Throw("Super index must be string, got " \o type_str(scratch))
            /\ UNCHANGED <<stack, calls, hist>>
       ELSE /\ IF r.exists THEN EnterCall(r.call, r.body)
               ELSE Throw(NoField(name)) /\ stack' = p.stack /\ calls' = p.calls
            /\ hist' = ObjectIndexed(hist, sb.self, name, offset, Len(p.stack), r)
    /\ UNCHANGED <<cfg, cachedImports, heap, swept, allocs, scratch, nat, ret, out>>
    /\ Traced

FrameIndexIndex ==
    /\ Unwinding("INDEX_INDEX")
    /\ LET f == Top(stack)
           target == f.val
           p == pop(stack, calls)
       IN
       CASE target.t = "array" ->
            LET i == scratch.n
                sz == Len(heap[target.h].elements)
                thunk == heap[target.h].elements[i + 1]
            IN
            IF scratch.t # "number"
            THEN /\ Throw("Array index must be number, got " \o type_str(scratch))
                 /\ UNCHANGED <<heap, swept, allocs, stack, calls, scratch, hist>>
            ELSE IF i < 0 \/ i >= sz
            THEN /\ Throw("Array bounds error")
                 /\ UNCHANGED <<heap, swept, allocs, stack, calls, scratch, hist>>
            ELSE IF ThunkFilled(heap, thunk)
            THEN /\ scratch' = heap[thunk].content
                 /\ hist' = CachedRead(hist)
                 /\ PopFrame
                 /\ UNCHANGED <<heap, swept, allocs>>
            ELSE /\ Force(heap, p.stack, p.calls, thunk, hist)
                 /\ UNCHANGED <<heap, swept, allocs, scratch>>
         [] target.t = "object" ->
            IF scratch.t # "string"
            THEN /\ Throw("Object index must be string, got " \o type_str(scratch))
                 /\ UNCHANGED <<heap, swept, allocs, stack, calls, scratch, hist>>
            ELSE LET name == heap[scratch.h].value
                     r == objectIndex(heap, p.stack, p.calls, cfg.limit, f.ast, target.h,
                                      name, 0)
                 IN  /\ IF r.exists THEN EnterCall(r.call, r.body)
                        ELSE Throw(NoField(name)) /\ stack' = p.stack /\ calls' = p.calls
                     /\ hist' = [ObjectIndexed(hist, target.h, name, 0, Len(p.stack), r)
                                    EXCEPT !.lastIndex =
                                        [on |-> r.exists /\ r.call.ok, obj |-> target.h,
                                         unguarded |-> f.ginv.on,
                                         thunks |-> f.ginv.thunks]]
                     /\ UNCHANGED <<heap, swept, allocs, scratch>>
         [] target.t = "string" ->
            LET i == scratch.n
                sz == Len(heap[target.h].value)
            IN
            IF scratch.t # "number"
            THEN /\ Throw("String index must be a number, got " \o type_str(scratch))
                 /\ UNCHANGED <<heap, swept, allocs, stack, calls, scratch, hist>>
            ELSE IF i < 0 \/ i >= sz
            THEN /\ Throw("String bounds error")
                 /\ UNCHANGED <<heap, swept, allocs, stack, calls, scratch, hist>>
            ELSE LET a == makeHeap(TheHeap,
                                   HeapString(SubSeq(heap[target.h].value, i + 1, i + 1)),
                                   stack, scratch)
                 IN  /\ SetHeap(a)
                     /\ scratch' = HeapValue("string", a.id)
                     /\ PopFrame
                     /\ UNCHANGED hist
         [] OTHER ->
            /\ Throw("INTERNAL ERROR: Not object / array / string.")
            /\ UNCHANGED <<heap, swept, allocs, stack, calls, scratch, hist>>
    /\ UNCHANGED <<cfg, cachedImports, nat, ret, out>>
    /\ Traced

FrameIndexTarget ==
    /\ Unwinding("INDEX_TARGET")
    /\ LET f == Top(stack)
           ast == f.ast
           self == scratch.h
           \* ast_ = ast.index; goto recurse is reached from this case.
           StartsIndex ==
               \/ scratch.t \in {"array", "string"}
               \/ /\ scratch.t = "object"
                  /\ \/ alreadyExecutingInvariants(stack, self)
                     \/ Top(objectInvariants(TheHeap, Append(stack, Frame("INVARIANTS", ast)),
                                             scratch, self, self, 0).stack).thunks = <<>>
           s1 == SetTop(stack,
                        [f EXCEPT !.val = scratch, !.kind = "INDEX_INDEX",
                                  !.ginv = [on |-> scratch.t = "object"
                                                   /\ ~HasInvariantsFrame(stack, self),
                                            thunks |-> <<>>,
                                            index |-> IF StartsIndex THEN 1 ELSE 0,
                                            ran |-> 0]])
           s2 == Append(s1, [Frame("INVARIANTS", ast) EXCEPT !.self = self])
           r == objectInvariants(TheHeap, s2, scratch, self, self, 0)
           thunks == Top(r.stack).thunks
           started == IF scratch.t = "object" THEN IndexStarted(hist, stack, self) ELSE hist
       IN
       IF scratch.t \notin {"array", "object", "string"}
       THEN /\ Throw("Can only index objects, strings, and arrays, got "
                     \o type_str(scratch))
            /\ UNCHANGED <<heap, swept, allocs, stack, calls, hist>>
       ELSE IF scratch.t = "object" /\ ~alreadyExecutingInvariants(s1, self)
       THEN /\ SetHeap(r.H)
            /\ IF Len(thunks) > 0
               THEN Force(r.H.heap, SetTop(r.stack, [Top(r.stack) EXCEPT !.elementId = 1]),
                          calls, thunks[1], InvariantRun(started, self, 1))
               ELSE /\ stack' = r.stack
                    /\ Goto(ast.index)
                    /\ hist' = started
                    /\ UNCHANGED calls
       ELSE /\ stack' = s1
            /\ Goto(ast.index)
            /\ hist' = started
            /\ UNCHANGED <<heap, swept, allocs, calls>>
    /\ UNCHANGED <<cfg, cachedImports, scratch, nat, ret, out>>
    /\ Traced

FrameInvariants ==
    /\ Unwinding("INVARIANTS")
    /\ LET f == Top(stack)
           s1 == Pop(stack)
           f2 == Top(s1)
       IN
       IF f.elementId >= Len(f.thunks)
       THEN /\ IF Len(stack) = Top(nat).init + 1
               THEN PopFrame
               ELSE /\ stack' = SetTop(s1, [f2 EXCEPT !.ginv.thunks = f.thunks,
                                                         !.ginv.index = @ + 1])
                    /\ Goto(f2.ast.index)
                    /\ UNCHANGED calls
            /\ UNCHANGED hist
       ELSE Force(heap, SetTop(stack, [f EXCEPT !.elementId = @ + 1]), calls,
                  f.thunks[f.elementId + 1],
                  InvariantRun(hist, f.self, f.elementId + 1))
    /\ UNCHANGED <<cfg, cachedImports, heap, swept, allocs, scratch, nat, ret, out>>
    /\ Traced

FrameLocal ==
    /\ Unwinding("LOCAL")
    /\ PopFrame
    /\ UNCHANGED <<cfg, cachedImports, heap, swept, allocs, scratch, nat, ret, out, hist>>
    /\ Traced

\* A test that finds no name taken.
DuplicateFieldNever(fields, fname) == FALSE

\* fields.find(fid) != fields.end(): the name is already that of a field.
DuplicateField(fields, fname) == fname \in DOMAIN fields

FrameObject ==
    /\ Unwinding("OBJECT")
    /\ LET f == Top(stack)
           ast == f.ast
           fname == heap[scratch.h].value
           fields == IF scratch.t = "null" THEN f.objectFields
                     ELSE Put(f.objectFields, fname,
                              [hide |-> ast.fields[f.fit].hide,
                               body |-> ast.fields[f.fit].body])
           s1 == SetTop(stack, [f EXCEPT !.objectFields = fields, !.fit = @ + 1])
       IN
       IF scratch.t \notin {"null", "string"}
       THEN /\ Throw("Field name was not a string.")
            /\ UNCHANGED <<heap, swept, allocs, stack, calls, scratch>>
       ELSE IF scratch.t = "string" /\ DuplicateField(f.objectFields, fname)
       THEN /\ Throw("Duplicate field name: \"" \o fname \o "\"")
            /\ UNCHANGED <<heap, swept, allocs, stack, calls, scratch>>
       ELSE IF f.fit + 1 <= Len(ast.fields)
       THEN /\ stack' = s1
            /\ Goto(ast.fields[f.fit + 1].name)
            /\ UNCHANGED <<heap, swept, allocs, calls, scratch>>
       ELSE LET a == makeHeap(TheHeap,
                              HeapSimpleObject(capture(s1, FreeVars(ast)), fields,
                                               ast.asserts),
                              s1, scratch)
            IN  /\ SetHeap(a)
                /\ scratch' = HeapValue("object", a.id)
                /\ PopFrame
    /\ UNCHANGED <<cfg, cachedImports, nat, ret, out, hist>>
    /\ Traced

FrameObjectCompArray ==
    /\ Unwinding("OBJECT_COMP_ARRAY")
    /\ LET f == Top(stack)
           ast == f.ast
       IN
       IF scratch.t # "array"
       THEN /\ Throw("Object comprehension needs array, got " \o type_str(scratch))
            /\ UNCHANGED <<heap, swept, allocs, stack, calls, scratch>>
       ELSE IF Len(heap[scratch.h].elements) = 0
       THEN LET a == makeHeap(TheHeap,
                              HeapComprehensionObject(EmptyEnv, ast.value, ast.id, EmptyEnv),
                              stack, scratch)
            IN  /\ SetHeap(a)
                /\ scratch' = HeapValue("object", a.id)
                /\ PopFrame
       ELSE /\ stack' = SetTop(stack,
                               [f EXCEPT !.kind = "OBJECT_COMP_ELEMENT", !.val = scratch,
                                         !.bindings = Put(@, ast.id,
                                                          heap[scratch.h].elements[1]),
                                         !.elementId = 0])
            /\ Goto(ast.field)
            /\ UNCHANGED <<heap, swept, allocs, calls, scratch>>
    /\ UNCHANGED <<cfg, cachedImports, nat, ret, out, hist>>
    /\ Traced

FrameObjectCompElement ==
    /\ Unwinding("OBJECT_COMP_ELEMENT")
    /\ LET f == Top(stack)
           ast == f.ast
           arr == heap[f.val.h]
           fname == heap[scratch.h].value
           elements == Put(f.elements, fname, arr.elements[f.elementId + 1])
           s1 == SetTop(stack, [f EXCEPT !.elements = elements, !.elementId = @ + 1])
       IN
       IF scratch.t # "string"
       THEN /\ Throw("field must be string, got: " \o type_str(scratch))
            /\ UNCHANGED <<heap, swept, allocs, stack, calls, scratch>>
       ELSE IF DuplicateField(f.elements, fname)
       THEN /\ Throw("Duplicate field name: \"" \o fname \o "\"")
            /\ UNCHANGED <<heap, swept, allocs, stack, calls, scratch>>
       ELSE IF f.elementId + 1 = Len(arr.elements)
       THEN LET a == makeHeap(TheHeap,
                              HeapComprehensionObject(capture(s1, FreeVars(ast)), ast.value,
                                                      ast.id, elements),
                              s1, scratch)
            IN  /\ SetHeap(a)
                /\ scratch' = HeapValue("object", a.id)
                /\ PopFrame
       ELSE /\ stack' = SetTop(s1, [Top(s1) EXCEPT !.bindings =
                                       Put(@, ast.id, arr.elements[f.elementId + 2])])
            /\ Goto(ast.field)
            /\ UNCHANGED <<heap, swept, allocs, calls, scratch>>
    /\ UNCHANGED <<cfg, cachedImports, nat, ret, out, hist>>
    /\ Traced

RECURSIVE Text(_)
\* The text manifestJson(loc, false, "") makes of a value, from its tokens.
Text(toks) ==
    IF toks = <<>> THEN ""
    ELSE LET t == Head(toks)
             here == CASE t.tok = "number" -> ToString(t.n)
                       [] t.tok = "string" -> "\"" \o t.s \o "\""
                       [] t.tok = "key" -> "\"" \o t.s \o "\": "
                       [] t.tok = "," -> ", "
                       [] OTHER -> t.tok
         IN  here \o Text(Tail(toks))

\* What a read through a reference to a frame of the stack can give after
\* calls that pushed frames: the vector may have moved its frames, and the
\* reference then dangles.  v is the value the frame holds.
DanglingRead(v, pushed) == IF pushed THEN {v, VNull} ELSE {v}

\* case FRAME_STRING_CONCAT, up to its first call of toString, or to its
\* end when both operands are strings.
FrameStringConcat ==
    /\ Unwinding("STRING_CONCAT")
    /\ hist.concats < MaxConcats
    /\ hist' = [hist EXCEPT !.concats = @ + 1]
    /\ LET f == Top(stack)
           lhs == f.val
           rhs == f.val2
           concat == [Activation("concat", "left") EXCEPT !.i = Len(stack)]
       IN
       IF lhs.t # "string"
       THEN /\ scratch' = lhs
            /\ nat' = Append(Append(nat, concat), Activation("manifestJson", "start"))
            /\ ctl' = [op |-> "native", ast |-> NoAst]
            /\ err' = err
            /\ UNCHANGED <<heap, swept, allocs, stack, calls>>
       ELSE IF rhs.t # "string"
       THEN /\ scratch' = rhs
            /\ nat' = Append(Append(nat, [concat EXCEPT !.pc = "right",
                                                       !.acc = <<heap[lhs.h].value>>]),
                             Activation("manifestJson", "start"))
            /\ ctl' = [op |-> "native", ast |-> NoAst]
            /\ err' = err
            /\ UNCHANGED <<heap, swept, allocs, stack, calls>>
       ELSE LET a == makeHeap(TheHeap, HeapString(heap[lhs.h].value \o heap[rhs.h].value),
                              stack, scratch)
            IN  /\ SetHeap(a)
                /\ scratch' = HeapValue("string", a.id)
                /\ PopFrame
                /\ UNCHANGED nat
    /\ UNCHANGED <<cfg, cachedImports, ret, out>>
    /\ Traced

\* case FRAME_STRING_CONCAT after a call of toString has returned: on to
\* the right operand, or to makeString and popframe.
StringConcatReturn ==
    /\ ctl.op = "native"
    /\ Top(nat).fn = "concat"
    /\ LET a == Top(nat)
           lhs == stack[a.i].val
           pushed == lhs.t = "object" \/ (lhs.t = "array" /\ heap[lhs.h].elements # <<>>)
       IN
       \E rhs \in IF a.pc = "left" THEN DanglingRead(stack[a.i].val2, pushed) ELSE {VNull} :
          IF a.pc = "left" /\ rhs.t # "string"
          THEN /\ scratch' = rhs
               /\ nat' = Append(SetTop(nat, [a EXCEPT !.pc = "right", !.acc = <<Text(ret)>>]),
                                Activation("manifestJson", "start"))
               /\ UNCHANGED <<heap, swept, allocs, stack, calls, ctl, err>>
          ELSE LET output == IF a.pc = "left" THEN Text(ret) \o heap[rhs.h].value
                             ELSE a.acc[1] \o Text(ret)
                   m == makeHeap(TheHeap, HeapString(output), stack, scratch)
               IN  /\ SetHeap(m)
                   /\ scratch' = HeapValue("string", m.id)
                   /\ nat' = Pop(nat)
                   /\ PopFrame
    /\ UNCHANGED <<cfg, cachedImports, ret, out, hist>>
    /\ Traced

\* The loop of evaluate ends: control returns to the native caller.
EvaluateReturn ==
    /\ ctl.op = "loop"
    /\ Top(nat).fn = "evaluate"
    /\ Len(stack) <= Top(nat).init
    /\ nat' = Pop(nat)
    /\ ctl' = [op |-> "native", ast |-> NoAst]
    /\ UNCHANGED <<cfg, cachedImports, heap, swept, allocs, stack, calls, scratch, ret, out, err, hist>>
    /\ Traced

\* ------------------------------------------------------ manifestation
Native(fn, pc) == ctl.op = "native" /\ Top(nat).fn = fn /\ Top(nat).pc = pc

\* The native caller moves to pc and calls manifestJson.
CallManifest(pc) == Append(SetTop(nat, [Top(nat) EXCEPT !.pc = pc]),
                           Activation("manifestJson", "start"))

\* The native caller moves to pc and calls evaluate(body, init).
CallEvaluate(acts, pc, init) == Append(SetTop(acts, [Top(acts) EXCEPT !.pc = pc]),
                                       Evaluate(init))

\* jsonnet_vm_execute after vm.evaluate(ast, 0): manifest the result.
ExecuteManifest ==
    /\ Native("execute", "evaluated")
    /\ cfg.mode = "json"
    /\ nat' = CallManifest("manifested")
    /\ UNCHANGED <<cfg, cachedImports, heap, swept, allocs, stack, calls, scratch, ctl, ret, out, err, hist>>
    /\ Traced

\* jsonnet_vm_execute returns the text.
ExecuteReturn ==
    /\ Native("execute", "manifested")
    /\ out' = ret
    /\ ctl' = [op |-> "done", ast |-> NoAst]
    /\ UNCHANGED <<cfg, cachedImports, heap, swept, allocs, stack, calls, scratch, nat, ret, err, hist>>
    /\ Traced

\* manifestJson of a boolean, a number, null or a string.
ManifestScalar ==
    /\ Native("manifestJson", "start")
    /\ scratch.t \in {"boolean", "number", "null", "string"}
    /\ ret' = CASE scratch.t = "boolean" ->
                        <<Token(IF scratch.n = 1 THEN "true" ELSE "false", "", 0)>>
                [] scratch.t = "number" -> <<Token("number", "", scratch.n)>>
                [] scratch.t = "null" -> <<Token("null", "", 0)>>
                [] OTHER -> <<Token("string", heap[scratch.h].value, 0)>>
    /\ nat' = Pop(nat)
    /\ UNCHANGED <<cfg, cachedImports, heap, swept, allocs, stack, calls, scratch, ctl, out, err, hist>>
    /\ Traced

ManifestFunction ==
    /\ Native("manifestJson", "start")
    /\ scratch.t = "function"
    /\ Throw("Couldn't manifest function in JSON output.")
    /\ UNCHANGED <<cfg, cachedImports, heap, swept, allocs, stack, calls, scratch, nat, ret, out, hist>>
    /\ Traced

\* manifestJson of an array, up to its loop.
ManifestArray ==
    /\ Native("manifestJson", "start")
    /\ scratch.t = "array"
    /\ IF Len(heap[scratch.h].elements) = 0
       THEN ret' = <<Token("[ ]", "", 0)>> /\ nat' = Pop(nat)
       ELSE /\ nat' = SetTop(nat, [Top(nat) EXCEPT !.pc = "element", !.ent = scratch.h,
                                                   !.acc = <<Token("[", "", 0)>>])
            /\ UNCHANGED ret
    /\ UNCHANGED <<cfg, cachedImports, heap, swept, allocs, stack, calls, scratch, ctl, out, err, hist>>
    /\ Traced

\* One round of the loop over arr->elements, up to the call that yields
\* the element's value; the loop's end returns the text.
ManifestElement ==
    /\ Native("manifestJson", "element")
    /\ LET a == Top(nat)
           arr == heap[a.ent]
           thunk == arr.elements[a.i + 1]
           c == IF ThunkFilled(heap, thunk)
                THEN newCall(stack, calls, cfg.limit, NoAst, thunk, 0, 0, EmptyEnv)
                ELSE newCall(stack, calls, cfg.limit, NoAst, thunk, heap[thunk].self,
                             heap[thunk].offset, heap[thunk].upValues)
           s1 == SetTop(c.stack, [Top(c.stack) EXCEPT !.val = scratch])
       IN
       IF a.i = Len(arr.elements)
       THEN /\ ret' = Append(a.acc, Token("]", "", 0))
            /\ nat' = Pop(nat)
            /\ UNCHANGED <<stack, calls, scratch, ctl, err, hist>>
       ELSE IF ~c.ok
       THEN /\ Throw(MaxStackError)
            /\ stack' = c.stack
            /\ calls' = c.calls
            /\ UNCHANGED <<scratch, nat, ret, hist>>
       ELSE /\ stack' = s1
            /\ calls' = c.calls
            /\ UNCHANGED ret
            /\ IF ThunkFilled(heap, thunk)
               THEN /\ scratch' = heap[thunk].content
                    /\ hist' = CachedRead(hist)
                    /\ nat' = CallManifest("restore")
                    /\ UNCHANGED <<ctl, err>>
               ELSE /\ nat' = CallEvaluate(nat, "value", Len(s1))
                    /\ Goto(heap[thunk].body)
                    /\ hist' = Entered(hist, thunk)
                    /\ UNCHANGED scratch
    /\ UNCHANGED <<cfg, cachedImports, heap, swept, allocs, out>>
    /\ Traced

\* evaluate has returned the value of a field or an element: manifest it.
ManifestValue ==
    /\ Native("manifestJson", "value")
    /\ nat' = CallManifest("restore")
    /\ hist' = IF heap[Top(nat).ent].kind = "array"
               THEN Completed(hist, heap[Top(nat).ent].elements[Top(nat).i + 1])
               ELSE hist
    /\ UNCHANGED <<cfg, cachedImports, heap, swept, allocs, stack, calls, scratch, ctl, ret, out, err>>
    /\ Traced

\* "scratch = stack.top().val; stack.pop();" and the text of the member.
ManifestRestore ==
    /\ Native("manifestJson", "restore")
    /\ LET a == Top(nat)
           sep == IF Len(a.acc) > 1 THEN <<Token(",", "", 0)>> ELSE <<>>
       IN
       /\ scratch' = Top(stack).val
       /\ stack' = pop(stack, calls).stack
       /\ calls' = pop(stack, calls).calls
       /\ nat' = SetTop(nat,
                    IF heap[a.ent].kind = "array"
                    THEN [a EXCEPT !.pc = "element", !.i = @ + 1,
                                   !.acc = a.acc \o sep \o ret]
                    ELSE [a EXCEPT !.pc = "field", !.fields = Tail(@),
                                   !.acc = a.acc \o sep
                                           \o <<Token("key", Head(a.fields), 0)>> \o ret])
    /\ UNCHANGED <<cfg, cachedImports, heap, swept, allocs, ctl, ret, out, err, hist>>
    /\ Traced

\* Interpreter::runInvariants(loc, self) called by the top native
\* activation, which is at "here" when the call returns: up to its return,
\* or up to the call of evaluate it makes.
runInvariants(self, here) ==
    LET s1 == newFrame(stack, "INVARIANTS", NoAst)
        r == objectInvariants(TheHeap, s1, scratch, self, self, 0)
        thunks == Top(r.stack).thunks
        initial_stack_size == Len(r.stack)
        s2 == SetTop(r.stack, [Top(r.stack) EXCEPT !.elementId = 1, !.self = self])
        c == newCall(s2, calls, cfg.limit, NoAst, thunks[1], r.H.heap[thunks[1]].self,
                     r.H.heap[thunks[1]].offset, r.H.heap[thunks[1]].upValues)
    IN
    IF alreadyExecutingInvariants(stack, self)
    THEN /\ nat' = here
         /\ UNCHANGED <<heap, swept, allocs, stack, calls, ctl, err, hist>>
    ELSE /\ SetHeap(r.H)
         /\ IF Len(thunks) = 0
            THEN /\ stack' = pop(r.stack, calls).stack
                 /\ nat' = here
                 /\ UNCHANGED <<calls, ctl, err, hist>>
            ELSE /\ stack' = c.stack
                 /\ calls' = c.calls
                 /\ IF c.ok
                    THEN /\ nat' = Append(here, Evaluate(initial_stack_size))
                         /\ Goto(r.H.heap[thunks[1]].body)
                         /\ hist' = Entered(hist, thunks[1])
                    ELSE /\ Throw(MaxStackError)
                         /\ UNCHANGED <<nat, hist>>

\* manifestJson of an object: runInvariants, then the fields.
ManifestObject ==
    /\ Native("manifestJson", "start")
    /\ scratch.t = "object"
    /\ runInvariants(scratch.h,
                     SetTop(nat, [Top(nat) EXCEPT !.pc = "fields", !.ent = scratch.h]))
    /\ UNCHANGED <<cfg, cachedImports, scratch, ret, out>>
    /\ Traced

\* manifestJson of an object after runInvariants: the fields to emit.
ManifestFields ==
    /\ Native("manifestJson", "fields")
    /\ LET fields == Sorted(objectFields(heap, Top(nat).ent, TRUE)) IN
       IF fields = <<>>
       THEN ret' = <<Token("{ }", "", 0)>> /\ nat' = Pop(nat)
       ELSE /\ nat' = SetTop(nat, [Top(nat) EXCEPT !.pc = "field", !.fields = fields,
                                                   !.acc = <<Token("{", "", 0)>>])
            /\ UNCHANGED ret
    /\ UNCHANGED <<cfg, cachedImports, heap, swept, allocs, stack, calls, scratch, ctl, out, err, hist>>
    /\ Traced

\* One round of the loop over the fields, up to the call of evaluate for
\* the field's body; the loop's end returns the text.
ManifestField ==
    /\ Native("manifestJson", "field")
    /\ LET a == Top(nat)
           f == Head(a.fields)
           r == objectIndex(heap, stack, calls, cfg.limit, NoAst, a.ent, f, 0)
           s1 == SetTop(r.call.stack, [Top(r.call.stack) EXCEPT !.val = scratch])
       IN
       IF a.fields = <<>>
       THEN /\ ret' = Append(a.acc, Token("}", "", 0))
            /\ nat' = Pop(nat)
            /\ UNCHANGED <<stack, calls, ctl, err, hist>>
       ELSE /\ hist' = ObjectIndexed(hist, a.ent, f, 0, Len(stack), r)
            /\ UNCHANGED ret
            /\ IF ~r.exists
               THEN Throw(NoField(f)) /\ UNCHANGED <<stack, calls, nat>>
               ELSE IF ~r.call.ok
               THEN /\ Throw(MaxStackError)
                    /\ stack' = r.call.stack
                    /\ calls' = r.call.calls
                    /\ UNCHANGED nat
               ELSE /\ stack' = s1
                    /\ calls' = r.call.calls
                    /\ nat' = CallEvaluate(nat, "value", Len(s1))
                    /\ Goto(r.body)
    /\ UNCHANGED <<cfg, cachedImports, heap, swept, allocs, scratch, out>>
    /\ Traced

\* ------------------------------------------ string, multi, stream output
ExpectedString(v) == "Expected string result, got: " \o type_str(v)

\* Interpreter::manifestString: the raw text of a string value.
manifestString(h, v) == <<Token("text", h[v.h].value, 0)>>

\* A string output that takes whatever value it is given.
ExecuteManifestStringUnchecked ==
    /\ Native("execute", "evaluated")
    /\ cfg.mode = "string"
    /\ ret' = IF scratch.t = "string" THEN manifestString(heap, scratch) ELSE <<>>
    /\ nat' = SetTop(nat, [Top(nat) EXCEPT !.pc = "manifested"])
    /\ UNCHANGED <<cfg, cachedImports, heap, swept, allocs, stack, calls, scratch, ctl, out, err, hist>>
    /\ Traced

\* jsonnet_vm_execute with string_output.
ExecuteManifestString ==
    /\ Native("execute", "evaluated")
    /\ cfg.mode = "string"
    /\ IF scratch.t # "string"
       THEN Throw(ExpectedString(scratch)) /\ UNCHANGED <<nat, ret>>
       ELSE /\ ret' = manifestString(heap, scratch)
            /\ nat' = SetTop(nat, [Top(nat) EXCEPT !.pc = "manifested"])
            /\ UNCHANGED <<ctl, err>>
    /\ UNCHANGED <<cfg, cachedImports, heap, swept, allocs, stack, calls, scratch, out, hist>>
    /\ Traced

\* jsonnet_vm_execute_multi after vm.evaluate(ast, 0).
ExecuteManifestMulti ==
    /\ Native("execute", "evaluated")
    /\ cfg.mode \in {"multi", "multi_string"}
    /\ nat' = Append(SetTop(nat, [Top(nat) EXCEPT !.pc = "manifested"]),
                     Activation("manifestMulti", "start"))
    /\ UNCHANGED <<cfg, cachedImports, heap, swept, allocs, stack, calls, scratch, ctl, ret, out, err, hist>>
    /\ Traced

MultiNeedsObject(v) == "Multi mode: Top-level object was a " \o type_str(v)

\* manifestMulti: the check of the top-level value, then runInvariants.
MultiStart ==
    /\ Native("manifestMulti", "start")
    /\ IF scratch.t # "object"
       THEN /\ Throw(MultiNeedsObject(scratch))
            /\ UNCHANGED <<heap, swept, allocs, stack, calls, nat, hist>>
       ELSE runInvariants(scratch.h,
                          SetTop(nat, [Top(nat) EXCEPT !.pc = "fields", !.ent = scratch.h]))
    /\ UNCHANGED <<cfg, cachedImports, scratch, ret, out>>
    /\ Traced

\* manifestMulti after runInvariants: the fields, in the order of the map.
MultiFields ==
    /\ Native("manifestMulti", "fields")
    /\ nat' = SetTop(nat, [Top(nat) EXCEPT !.pc = "field",
                              !.fields = Sorted(objectFields(heap, Top(nat).ent, TRUE))])
    /\ UNCHANGED <<cfg, cachedImports, heap, swept, allocs, stack, calls, scratch, ctl, ret, out, err, hist>>
    /\ Traced

\* One round of manifestMulti's loop, up to the call of evaluate for the
\* field's body; the loop's end returns the map.
MultiField ==
    /\ Native("manifestMulti", "field")
    /\ LET a == Top(nat)
           f == Head(a.fields)
           r == objectIndex(heap, stack, calls, cfg.limit, NoAst, a.ent, f, 0)
           s1 == SetTop(r.call.stack, [Top(r.call.stack) EXCEPT !.val = scratch])
       IN
       IF a.fields = <<>>
       THEN /\ ret' = a.acc
            /\ nat' = Pop(nat)
            /\ UNCHANGED <<stack, calls, ctl, err, hist>>
       ELSE /\ hist' = ObjectIndexed(hist, a.ent, f, 0, Len(stack), r)
            /\ UNCHANGED ret
            /\ IF ~r.exists
               THEN Throw(NoField(f)) /\ UNCHANGED <<stack, calls, nat>>
               ELSE IF ~r.call.ok
               THEN /\ Throw(MaxStackError)
                    /\ stack' = r.call.stack
                    /\ calls' = r.call.calls
                    /\ UNCHANGED nat
               ELSE /\ stack' = s1
                    /\ calls' = r.call.calls
                    /\ nat' = CallEvaluate(nat, "value", Len(s1))
                    /\ Goto(r.body)
    /\ UNCHANGED <<cfg, cachedImports, heap, swept, allocs, scratch, out>>
    /\ Traced

\* evaluate has returned the value of the field: manifestString or manifestJson.
MultiValue ==
    /\ Native("manifestMulti", "value")
    /\ IF cfg.mode = "multi_string"
       THEN IF scratch.t # "string"
            THEN Throw(ExpectedString(scratch)) /\ UNCHANGED <<nat, ret>>
            ELSE /\ ret' = manifestString(heap, scratch)
                 /\ nat' = SetTop(nat, [Top(nat) EXCEPT !.pc = "restore"])
                 /\ UNCHANGED <<ctl, err>>
       ELSE /\ nat' = CallManifest("restore")
            /\ UNCHANGED <<ctl, ret, err>>
    /\ UNCHANGED <<cfg, cachedImports, heap, swept, allocs, stack, calls, scratch, out, hist>>
    /\ Traced

\* "scratch = stack.top().val; stack.pop();" and the entry of the map.
MultiRestore ==
    /\ Native("manifestMulti", "restore")
    /\ scratch' = Top(stack).val
    /\ stack' = pop(stack, calls).stack
    /\ calls' = pop(stack, calls).calls
    /\ nat' = SetTop(nat, [Top(nat) EXCEPT !.pc = "field", !.fields = Tail(@),
                              !.acc = @ \o <<Token("file", Head(Top(nat).fields), 0)>>
                                        \o ret])
    /\ UNCHANGED <<cfg, cachedImports, heap, swept, allocs, ctl, ret, out, err, hist>>
    /\ Traced

\* jsonnet_vm_execute_stream after vm.evaluate(ast, 0).
ExecuteManifestStream ==
    /\ Native("execute", "evaluated")
    /\ cfg.mode = "stream"
    /\ nat' = Append(SetTop(nat, [Top(nat) EXCEPT !.pc = "manifested"]),
                     Activation("manifestStream", "start"))
    /\ UNCHANGED <<cfg, cachedImports, heap, swept, allocs, stack, calls, scratch, ctl, ret, out, err, hist>>
    /\ Traced

StreamNeedsArray(v) == "Stream mode: Top-level object was a " \o type_str(v)

\* manifestStream: the check of the top-level value.
StreamStart ==
    /\ Native("manifestStream", "start")
    /\ IF scratch.t # "array"
       THEN Throw(StreamNeedsArray(scratch)) /\ UNCHANGED nat
       ELSE /\ nat' = SetTop(nat, [Top(nat) EXCEPT !.pc = "element", !.ent = scratch.h])
            /\ UNCHANGED <<ctl, err>>
    /\ UNCHANGED <<cfg, cachedImports, heap, swept, allocs, stack, calls, scratch, ret, out, hist>>
    /\ Traced

\* One round of manifestStream's loop, up to the call that yields the
\* element's value; the loop's end returns the documents.
StreamElement ==
    /\ Native("manifestStream", "element")
    /\ LET a == Top(nat)
           arr == heap[a.ent]
           thunk == arr.elements[a.i + 1]
           c == IF ThunkFilled(heap, thunk)
                THEN newCall(stack, calls, cfg.limit, NoAst, thunk, 0, 0, EmptyEnv)
                ELSE newCall(stack, calls, cfg.limit, NoAst, thunk, heap[thunk].self,
                             heap[thunk].offset, heap[thunk].upValues)
           s1 == SetTop(c.stack, [Top(c.stack) EXCEPT !.val = scratch])
       IN
       IF a.i = Len(arr.elements)
       THEN /\ ret' = a.acc
            /\ nat' = Pop(nat)
            /\ UNCHANGED <<stack, calls, scratch, ctl, err, hist>>
       ELSE IF ~c.ok
       THEN /\ Throw(MaxStackError)
            /\ stack' = c.stack
            /\ calls' = c.calls
            /\ UNCHANGED <<scratch, nat, ret, hist>>
       ELSE /\ stack' = s1
            /\ calls' = c.calls
            /\ UNCHANGED ret
            /\ IF ThunkFilled(heap, thunk)
               THEN /\ scratch' = heap[thunk].content
                    /\ hist' = CachedRead(hist)
                    /\ nat' = CallManifest("restore")
                    /\ UNCHANGED <<ctl, err>>
               ELSE /\ nat' = CallEvaluate(nat, "value", Len(s1))
                    /\ Goto(heap[thunk].body)
                    /\ hist' = Entered(hist, thunk)
                    /\ UNCHANGED scratch
    /\ UNCHANGED <<cfg, cachedImports, heap, swept, allocs, out>>
    /\ Traced

\* evaluate has returned the value of the element: manifest it.
StreamValue ==
    /\ Native("manifestStream", "value")
    /\ nat' = CallManifest("restore")
    /\ hist' = Completed(hist, heap[Top(nat).ent].elements[Top(nat).i + 1])
    /\ UNCHANGED <<cfg, cachedImports, heap, swept, allocs, stack, calls, scratch, ctl, ret, out, err>>
    /\ Traced

\* "scratch = stack.top().val; stack.pop();" and the document.
StreamRestore ==
    /\ Native("manifestStream", "restore")
    /\ scratch' = Top(stack).val
    /\ stack' = pop(stack, calls).stack
    /\ calls' = pop(stack, calls).calls
    /\ nat' = SetTop(nat, [Top(nat) EXCEPT !.pc = "element", !.i = @ + 1,
                              !.acc = @ \o <<Token("document", "", Top(nat).i)>> \o ret])
    /\ UNCHANGED <<cfg, cachedImports, heap, swept, allocs, ctl, ret, out, err, hist>>
    /\ Traced

Next ==
    \/ EvalApply
    \/ EvalArray
    \/ EvalBinary
    \/ EvalBuiltinFunction
    \/ EvalConditional
    \/ EvalError
    \/ EvalFunction
    \/ EvalImport
    \/ EvalImportstr
    \/ EvalIndex
    \/ EvalLocal
    \/ EvalLiteralBoolean
    \/ EvalLiteralNumber
    \/ EvalLiteralString
    \/ EvalLiteralNull
    \/ EvalDesugaredObject
    \/ EvalObjectComprehensionSimple
    \/ EvalSelf
    \/ EvalSuperIndex
    \/ EvalVar
    \/ ApplyTarget
    \/ BinaryLeft
    \/ BinaryRight
    \/ BuiltinForceThunks
    \/ BuiltinFilter
    \/ FrameCall
    \/ FrameError
    \/ FrameIf
    \/ FrameSuperIndex
    \/ FrameIndexIndex
    \/ FrameIndexTarget
    \/ FrameInvariants
    \/ FrameLocal
    \/ FrameObject
    \/ FrameObjectCompArray
    \/ FrameObjectCompElement
    \/ FrameStringConcat
    \/ StringConcatReturn
    \/ EvaluateReturn
    \/ ExecuteManifest
    \/ ExecuteReturn
    \/ ManifestScalar
    \/ ManifestFunction
    \/ ManifestArray
    \/ ManifestElement
    \/ ManifestValue
    \/ ManifestRestore
    \/ ManifestObject
    \/ ManifestFields
    \/ ManifestField
    \/ ExecuteManifestString
    \/ ExecuteManifestMulti
    \/ MultiStart
    \/ MultiFields
    \/ MultiField
    \/ MultiValue
    \/ MultiRestore
    \/ ExecuteManifestStream
    \/ StreamStart
    \/ StreamElement
    \/ StreamValue
    \/ StreamRestore

Spec == Init /\ [][Next]_vars

\* ============================================================== claims
\* What follows states the claims over the runs of Spec.  The leaves, the
\* assertions and the frames are counted here from the definitions of the
\* object model, not through the operators of the interpreter above.

AssertionFailed == "Assertion failed"

CallFrames(stk) == Cardinality({i \in DOMAIN stk : stk[i].kind = "CALL"})

RECURSIVE LeavesOf(_, _)
\* The leaves of the +-tree of object o, rightmost first.
LeavesOf(h, o) ==
    IF h[o].kind = "ext" THEN LeavesOf(h, h[o].right) \o LeavesOf(h, h[o].left)
    ELSE <<o>>

RECURSIVE AssertionsFrom(_, _, _)
\* The assertions of the leaves L from position p on, each with the number
\* of leaves to the right of its own leaf.
AssertionsFrom(h, L, p) ==
    IF p > Len(L) THEN <<>>
    ELSE (IF h[L[p]].kind = "simple"
          THEN [j \in 1..Len(h[L[p]].asserts) |->
                    [offset |-> p - 1, body |-> h[L[p]].asserts[j]]]
          ELSE <<>>)
         \o AssertionsFrom(h, L, p + 1)

ExpectedAssertions(h, o) == AssertionsFrom(h, LeavesOf(h, o), 1)

\* Thunk t is an invariant thunk of object o for the assertion a.
IsInvariantThunk(h, t, o, a) ==
    /\ h[t].kind = "thunk"
    /\ h[t].name = "object_assert"
    /\ h[t].self = o
    /\ h[t].offset = a.offset
    /\ h[t].body = a.body

TimesEntered(t) == IF t \in DOMAIN hist.entered THEN hist.entered[t] ELSE 0

\* C1: while manifestJson emits the fields of an object, every assertion of
\* every leaf of that object has been forced to completion (a failing one
\* would have ended the run before any field).
C1_AssertionsBeforeFields ==
    \A i \in DOMAIN nat :
        (nat[i].fn = "manifestJson" /\ nat[i].pc \in {"field", "value", "restore"}
            /\ heap[nat[i].ent].kind # "array")
        => LET ex == ExpectedAssertions(heap, nat[i].ent) IN
           \A n \in DOMAIN ex :
               \E t \in hist.done : IsInvariantThunk(heap, t, nat[i].ent, ex[n])

\* C2: when the body of a field is entered by an index operation that began
\* with no INVARIANTS frame for the object on the stack, that operation made
\* one thunk per assertion of every leaf, with self the composite and offset
\* the position of the assertion's leaf from the right, and each of them has
\* been forced to completion, once; a failed assertion leaves the operation
\* in its INVARIANTS frame, the body never entered.
C2_IndexRunsInvariants ==
    /\ (hist.lastIndex.on /\ hist.lastIndex.unguarded)
       => LET ts == hist.lastIndex.thunks
              ex == ExpectedAssertions(heap, hist.lastIndex.obj)
          IN  /\ Len(ts) = Len(ex)
              /\ \A n \in DOMAIN ts :
                    /\ IsInvariantThunk(heap, ts[n], hist.lastIndex.obj, ex[n])
                    /\ ts[n] \in hist.done
                    /\ heap[ts[n]].filled
                    /\ TimesEntered(ts[n]) = 1
    /\ err = AssertionFailed
       => /\ ctl.op = "error"
          /\ \E i \in DOMAIN stack :
                /\ stack[i].kind = "INVARIANTS"
                /\ \E n \in DOMAIN stack[i].thunks :
                      /\ n = stack[i].elementId
                      /\ stack[i].thunks[n] \notin hist.done

C2_Witness ==
    /\ hist.lastIndex.on
    /\ hist.lastIndex.unguarded
    /\ Len(hist.lastIndex.thunks) = 3
    /\ Len(LeavesOf(heap, hist.lastIndex.obj)) = 2

RunsOf(o, n) == IF <<o, n>> \in DOMAIN hist.invRuns THEN hist.invRuns[<<o, n>>] ELSE 0

OuterReads(o) == IF o \in DOMAIN hist.outer THEN hist.outer[o] ELSE 0

\* C3: each assertion of an object is executed by index operations at most
\* once per outermost read of the object, a read being outermost when no
\* frame on the stack evaluates with the object as its self.
C3_OncePerOutermostRead ==
    \A k \in DOMAIN hist.invRuns : hist.invRuns[k] <= OuterReads(k[1])

\* C4: the CALL frames on the stack never outnumber max_stack, and the error
\* "Max stack frames exceeded." is raised only with max_stack CALL frames on
\* the stack, whatever the number of other frames, and adds none.
C4_MaxStack ==
    /\ CallFrames(stack) <= cfg.limit
    /\ calls = CallFrames(stack)
    /\ err = MaxStackError => ctl.op = "error" /\ CallFrames(stack) = cfg.limit

C4_Witness ==
    /\ err = MaxStackError
    /\ Len(stack) > cfg.limit
    /\ CallFrames(stack) = cfg.limit

TailPrograms == {"tail", "tail_all"}

FrameRefs(f) ==
    (IF isHeap(f.val) THEN {f.val.h} ELSE {})
        \cup (IF isHeap(f.val2) THEN {f.val2.h} ELSE {})
        \cup {f.context, f.self}
        \cup {f.bindings[x] : x \in DOMAIN f.bindings}
        \cup {f.elements[x] : x \in DOMAIN f.elements}
        \cup {f.thunks[i] : i \in DOMAIN f.thunks}

\* The entities the VM holds: in the frames, in scratch, and in the obj and
\* arr of the manifestJson activations.
Held ==
    (UNION {FrameRefs(stack[i]) : i \in DOMAIN stack}
        \cup (IF isHeap(scratch) THEN {scratch.h} ELSE {})
        \cup {nat[i].ent : i \in DOMAIN nat}) \ {0}

\* C6: no entity the VM holds, directly or through the entities it holds,
\* has been swept by a collection, however often collections run.
C6_NoSweptEntityHeld == Reach(heap, Held, {}) \cap swept = {}

C6_Witness ==
    /\ cfg.gc = 1
    /\ swept # {}
    /\ \E i \in DOMAIN stack : stack[i].kind = "BINARY_RIGHT" /\ isHeap(stack[i].val)
    /\ isHeap(scratch)

EnteredIn(h, t) == IF t \in DOMAIN h.entered THEN h.entered[t] ELSE 0

C8_ForcingFills ==
    /\ \A t \in hist.done : heap[t].filled
    /\ \A t \in DOMAIN hist.entered : hist.entered[t] <= 1

\* Leaf e defines field f.
Defines(e, f) ==
    \/ e.kind = "simple" /\ f \in DOMAIN e.fields
    \/ e.kind = "comp" /\ f \in DOMAIN e.compValues

\* The position, counted from 1 at the right, of the first leaf of root
\* after the k rightmost that defines f; 0 when there is none.
ExpectedLeaf(h, root, f, k) ==
    LET L == LeavesOf(h, root)
        S == {p \in DOMAIN L : p > k /\ Defines(h[L[p]], f)}
    IN  IF S = {} THEN 0 ELSE CHOOSE p \in S : \A q \in S : p <= q

\* The last objectIndex pushed the frame of the expected leaf, with self the
\* root, offset the leaves to its right and the given bindings.
FieldFrame(bindings) ==
    LET L == LeavesOf(heap, hist.oi.root)
        p == ExpectedLeaf(heap, hist.oi.root, hist.oi.f, hist.oi.k)
    IN  /\ hist.oi.frame.kind = "CALL"
        /\ hist.oi.frame.context = L[p]
        /\ hist.oi.frame.self = hist.oi.root
        /\ hist.oi.frame.offset = p - 1
        /\ hist.oi.frame.bindings = bindings

\* C9 as the claim has it: the bindings of the frame are the captured
\* environment of the leaf, whatever the leaf.
C9_LeafEnvironmentOnly ==
    (hist.oi.on /\ hist.oi.pushed)
    => LET L == LeavesOf(heap, hist.oi.root)
           p == ExpectedLeaf(heap, hist.oi.root, hist.oi.f, hist.oi.k)
       IN  p # 0 /\ FieldFrame(heap[L[p]].upValues)

\* C9: objectIndex selects the first leaf, rightmost first, at position >= k
\* that defines f, and pushes a CALL frame with self the root, offset the
\* number of leaves to the right of that leaf and bindings the leaf's
\* captured environment, extended for a ComprehensionObject leaf by the loop
\* variable bound to the thunk of f; with no such leaf the run ends in
\* "Field does not exist: f" and no frame is pushed.
C9_ObjectIndex ==
    hist.oi.on
    => LET L == LeavesOf(heap, hist.oi.root)
           p == ExpectedLeaf(heap, hist.oi.root, hist.oi.f, hist.oi.k)
       IN  IF p = 0
           THEN /\ ~hist.oi.exists
                /\ ctl.op = "error"
                /\ err = NoField(hist.oi.f)
                /\ Len(stack) = hist.oi.depth
           ELSE /\ hist.oi.exists
                /\ hist.oi.pushed
                   => FieldFrame(IF heap[L[p]].kind = "comp"
                                 THEN Put(heap[L[p]].upValues, heap[L[p]].id,
                                          heap[L[p]].compValues[hist.oi.f])
                                 ELSE heap[L[p]].upValues)

C9_Witness ==
    /\ hist.oi.on
    /\ hist.oi.pushed
    /\ hist.oi.k = 2
    /\ hist.oi.frame.offset = 2
    /\ Len(LeavesOf(heap, hist.oi.root)) = 3
    /\ Top(stack) = hist.oi.frame

\* The self of the innermost call on the stack.
EnclosingSelf(stk) ==
    LET cs == {i \in DOMAIN stk : stk[i].kind = "CALL"} IN
    IF cs = {} THEN 0 ELSE stk[CHOOSE i \in cs : \A j \in cs : j <= i].self

\* The step makes the thunks of a local, an array or a call's arguments, or
\* a function.
Creating ==
    \/ ctl.op = "eval" /\ ctl.ast.k \in {"function", "local", "array"}
    \/ ctl.op = "loop" /\ stack # <<>> /\ Top(stack).kind = "APPLY_TARGET"

LexicalSelfResult == <<Token("number", "", 2)>>

\* C10: every function and thunk made while an expression is evaluated takes
\* the self of the innermost call, which for a field of a composite is the
\* composite; the function of field a in
\* ({a: function() self.b, b: 1} + {b: 2}).a() holds the composite as its
\* self, and the call yields 2.
C10_LexicalSelf ==
    [][/\ Creating
          => \A id \in (DOMAIN heap') \ (DOMAIN heap) :
                heap'[id].kind \in {"thunk", "closure"}
                => heap'[id].self = EnclosingSelf(stack)
       /\ cfg.prog = "lexical"
          => /\ \A id \in DOMAIN heap' :
                   (heap'[id].kind = "closure" /\ heap'[id].body # NoAst)
                   => heap'[id].self # 0 /\ heap'[heap'[id].self].kind = "ext"
             /\ ctl'.op = "done" => out' = LexicalSelfResult]_vars

C10_Witness ==
    /\ cfg.prog = "lexical"
    /\ ctl.op = "done"
    /\ out = LexicalSelfResult
    /\ \E id \in DOMAIN heap :
          /\ heap[id].kind = "closure"
          /\ heap[id].self # 0
          /\ heap[heap[id].self].kind = "ext"

\* The innermost call on the stack.
EnclosingCall(stk) ==
    LET cs == {i \in DOMAIN stk : stk[i].kind = "CALL"} IN
    stk[CHOOSE i \in cs : \A j \in cs : j <= i]

\* The step is a super.f that finds its field.
SuperStep ==
    /\ ctl.op = "loop"
    /\ stack # <<>>
    /\ Top(stack).kind = "SUPER_INDEX"
    /\ ctl'.op = "eval"

SuperChainResult == <<Token("{", "", 0), Token("key", "a", 0), Token("number", "", 3),
                      Token("}", "", 0)>>

SuperSiblingResult ==
    <<Token("{", "", 0), Token("key", "a", 0), Token("number", "", 11),
      Token(",", "", 0), Token("key", "b", 0), Token("number", "", 1), Token("}", "", 0)>>

\* C11: super.f inside a field found at leaf position p of self opens the
\* frame of the first leaf at position p + 1 or further left that defines f,
\* with the same self; {a: 1} + {a: super.a + 1} + {a: super.a + 1} has
\* a = 3, and { a: 1 } + { a: super.a + 10, b: super.a } has a = 11, b = 1.
C11_SuperTraversal ==
    [][/\ SuperStep
          => LET c == EnclosingCall(stack)
                 f == heap[scratch.h].value
                 L == LeavesOf(heap, c.self)
                 q == ExpectedLeaf(heap, c.self, f, c.offset + 1)
             IN  /\ q > c.offset + 1
                 /\ Top(stack').kind = "CALL"
                 /\ Top(stack').self = c.self
                 /\ Top(stack').offset = q - 1
                 /\ Top(stack').context = L[q]
                 /\ ctl'.ast = IF heap[L[q]].kind = "simple" THEN heap[L[q]].fields[f].body
                               ELSE heap[L[q]].value
       /\ (cfg.prog = "super" /\ ctl'.op = "done") => out' = SuperChainResult
       /\ (cfg.prog = "super_sibling" /\ ctl'.op = "done") => out' = SuperSiblingResult]_vars

C11_Witness ==
    /\ cfg.prog = "super"
    /\ stack # <<>>
    /\ Top(stack).kind = "CALL"
    /\ Top(stack).offset = 2
    /\ hist.oi.on
    /\ hist.oi.k = 2
    /\ Len(LeavesOf(heap, Top(stack).self)) = 3

\* The hide kind leaf e gives field f.
HideOf(e, f) == IF e.kind = "simple" THEN e.fields[f].hide ELSE "VISIBLE"

\* The effective hide kind of field f of object o: that of the rightmost
\* leaf defining f as Visible or Hidden, Inherit when no leaf decides.
EffectiveHide(h, o, f) ==
    LET L == LeavesOf(h, o)
        S == {p \in DOMAIN L : Defines(h[L[p]], f) /\ HideOf(h[L[p]], f) # "INHERIT"}
    IN  IF S = {} THEN "INHERIT"
        ELSE HideOf(h[L[CHOOSE p \in S : \A q \in S : p <= q]], f)

FieldsOf(h, o) ==
    UNION {IF h[l].kind = "simple" THEN DOMAIN h[l].fields ELSE DOMAIN h[l].compValues
               : l \in Range(LeavesOf(h, o))}

IsObject(e) == e.kind \in {"simple", "comp", "ext"}

HiddenResult ==
    <<Token("{", "", 0), Token("key", "c", 0), Token("number", "", 30),
      Token(",", "", 0), Token("key", "f", 0), Token("number", "", 40),
      Token(",", "", 0), Token("key", "g", 0), Token("number", "", 50), Token("}", "", 0)>>

\* C12: the fields manifestation emits for an object are those whose
\* effective hide kind is not Hidden, the kind being that of the rightmost
\* leaf that defines the field as Visible or Hidden (visible when every leaf
\* inherits); a hidden field is still evaluated when it is indexed.
C12_FieldVisibility ==
    /\ \A o \in DOMAIN heap :
          IsObject(heap[o])
          => objectFields(heap, o, TRUE)
                = {f \in FieldsOf(heap, o) : EffectiveHide(heap, o, f) # "HIDDEN"}
    /\ \A i \in DOMAIN nat :
          (nat[i].fn = "manifestJson" /\ nat[i].pc = "field")
          => \A j \in DOMAIN nat[i].fields :
                EffectiveHide(heap, nat[i].ent, nat[i].fields[j]) # "HIDDEN"
    /\ (cfg.prog = "hidden" /\ cfg.mode = "json" /\ ctl.op = "done") => out = HiddenResult
    /\ (cfg.prog = "hidden_index" /\ ctl.op = "done") => out = <<Token("number", "", 10)>>

C12_Witness ==
    /\ cfg.prog = "hidden"
    /\ cfg.mode = "json"
    /\ ctl.op = "done"
    /\ out = HiddenResult
    /\ \E o \in DOMAIN heap :
          /\ IsObject(heap[o])
          /\ Len(LeavesOf(heap, o)) = 3
          /\ EffectiveHide(heap, o, "b") = "HIDDEN"
          /\ EffectiveHide(heap, o, "c") = "VISIBLE"
          /\ EffectiveHide(heap, o, "g") = "INHERIT"

RECURSIVE KeysAt(_, _, _)
\* The keys of the outermost object of a text, in the order of the text.
KeysAt(text, i, depth) ==
    IF i > Len(text) THEN <<>>
    ELSE CASE text[i].tok \in {"{", "["} -> KeysAt(text, i + 1, depth + 1)
           [] text[i].tok \in {"}", "]"} -> KeysAt(text, i + 1, depth - 1)
           [] text[i].tok = "key" /\ depth = 1 -> <<text[i].s>> \o KeysAt(text, i + 1, depth)
           [] OTHER -> KeysAt(text, i + 1, depth)

TopKeys(text) == KeysAt(text, 1, 0)

\* The names of the files of a multi-mode output, in the order of the output.
FileNames(text) ==
    LET fs == SelectSeq(text, LAMBDA t : t.tok = "file") IN [i \in DOMAIN fs |-> fs[i].s]

\* The place of a name in the lexicographic order of names.
Rank(n) == CHOOSE i \in DOMAIN NameOrder : NameOrder[i] = n

\* ks lists the non-hidden fields of object o, each once, in ascending order.
ListsVisibleAscending(ks, o) ==
    /\ Range(ks) = {f \in FieldsOf(heap, o) : EffectiveHide(heap, o, f) # "HIDDEN"}
    /\ \A i, j \in DOMAIN ks : i < j => Rank(ks[i]) < Rank(ks[j])

\* C13: the fields manifestJson and manifestMulti have emitted for an object,
\* followed by those they have still to emit, are the non-hidden fields of the
\* object, each once, in ascending order of name.
C13_FieldOrder ==
    \A i \in DOMAIN nat :
        /\ (nat[i].fn = "manifestJson" /\ nat[i].pc \in {"field", "value", "restore"}
                /\ IsObject(heap[nat[i].ent]))
           => ListsVisibleAscending(TopKeys(nat[i].acc) \o nat[i].fields, nat[i].ent)
        /\ (nat[i].fn = "manifestMulti" /\ nat[i].pc \in {"field", "value", "restore"})
           => ListsVisibleAscending(FileNames(nat[i].acc) \o nat[i].fields, nat[i].ent)

C13_Witness ==
    /\ cfg.prog = "comprehension"
    /\ Top(nat).fn = "manifestJson"
    /\ Top(nat).pc = "field"
    /\ Top(nat).fields = <<>>
    /\ TopKeys(Top(nat).acc) = <<"a", "b", "c">>

NoFunctionInJson == "Couldn't manifest function in JSON output."

\* The step ends the run in the runtime error msg, nothing having been output.
FailsWith(msg) == ctl'.op = "error" /\ err' = msg /\ out' = <<>>

\* C14: multi mode fails unless the top-level value is an object, stream
\* mode unless it is an array, string output unless the value (in multi mode
\* the value of each field) is a string, each before anything is output;
\* single-document JSON takes every top-level value and fails on a function
\* with "Couldn't manifest function in JSON output.".
C14_OutputModes ==
    [][/\ Native("manifestMulti", "start")
          => IF scratch.t # "object" THEN FailsWith(MultiNeedsObject(scratch))
             ELSE err' # MultiNeedsObject(scratch)
       /\ Native("manifestStream", "start")
          => IF scratch.t # "array" THEN FailsWith(StreamNeedsArray(scratch))
             ELSE ctl'.op # "error" /\ Top(nat').pc = "element"
       /\ (Native("execute", "evaluated") /\ cfg.mode = "string")
          => IF scratch.t # "string" THEN FailsWith(ExpectedString(scratch))
             ELSE ctl'.op # "error" /\ ret' = <<Token("text", heap[scratch.h].value, 0)>>
       /\ (Native("manifestMulti", "value") /\ cfg.mode = "multi_string")
          => IF scratch.t # "string" THEN FailsWith(ExpectedString(scratch))
             ELSE ctl'.op # "error" /\ ret' = <<Token("text", heap[scratch.h].value, 0)>>
       /\ (Native("execute", "evaluated") /\ cfg.mode = "json")
          => ctl'.op # "error" /\ Top(nat').fn = "manifestJson"
       /\ Native("manifestJson", "start")
          => IF scratch.t = "function" THEN FailsWith(NoFunctionInJson)
             ELSE err' # NoFunctionInJson]_vars

C14_Witness ==
    /\ cfg.mode = "multi_string"
    /\ cfg.prog = "hidden"
    /\ Top(nat).fn = "manifestMulti"
    /\ Top(nat).pc = "value"
    /\ ctl.op = "error"
    /\ err = ExpectedString(scratch)
    /\ out = <<>>

\* The import statement a step evaluates, and its cache key.
ImportStep == ctl.op = "eval" /\ ctl.ast.k \in {"import", "importstr"}
StepKey == ImportKey(ctl.ast.location, ctl.ast.file)

\* The import callback returned successfully this many times for key.
SuccessfulLoads(loads, key) ==
    Cardinality({i \in DOMAIN loads : loads[i].key = key /\ loads[i].success})

\* C15: for one key (directory of the importing file, literal path) the
\* import callback returns successfully at most once, and an import or
\* importstr of a key that is cached uses the cached file name and text
\* and does not call the callback.
C15_ImportCache ==
    [][/\ \A i \in DOMAIN hist'.loads : SuccessfulLoads(hist'.loads, hist'.loads[i].key) <= 1
       /\ (ImportStep /\ StepKey \in DOMAIN cachedImports /\ ~cachedImports[StepKey].null)
          => LET cached == cachedImports[StepKey]
             IN  /\ hist'.loads = hist.loads
                 /\ cachedImports' = cachedImports
                 /\ ctl.ast.k = "importstr" => heap'[scratch'.h].value = cached.content
                 /\ (ctl.ast.k = "import" /\ ctl'.op = "eval")
                    => ctl'.ast = Parse(cached.foundHere, cached.content)]_vars

\* "x" was imported twice and importstr'ed once with one call of the callback.
C15_Witness ==
    /\ cfg.prog = "imports"
    /\ Len(hist.parsed) = 2
    /\ hist.parsed[1] = hist.parsed[2]
    /\ Len(hist.loads) = 1
    /\ scratch.t = "string"
    /\ heap[scratch.h].value = cachedImports[hist.parsed[1]].content

\* C16: the evaluations of an import of one key yield one and the same
\* entity, and the imported program is evaluated once per key.
C16_ImportIdentity ==
    /\ \A i, j \in DOMAIN hist.imports :
          hist.imports[i].key = hist.imports[j].key
          => hist.imports[i].value = hist.imports[j].value
    /\ \A i, j \in DOMAIN hist.parsed : hist.parsed[i] = hist.parsed[j] => i = j

\* C17: when the import callback fails, the run ends with the error
\* Couldn't open import "<path>": <reason> at the import statement, no
\* CALL frame is opened, and the key has no cache value: an import of it
\* would call the callback again.
C17_ImportFailure ==
    [][(/\ ImportStep
        /\ Len(hist'.loads) > Len(hist.loads)
        /\ ~hist'.loads[Len(hist'.loads)].success)
       => /\ ctl'.op = "error"
          /\ err' = "Couldn't open import \"" \o ctl.ast.file \o "\": no match"
          /\ trace'[1].location = ctl.ast
          /\ stack' = stack
          /\ calls' = calls
          /\ cachedImports'[StepKey].null
          /\ \A res \in importCallback(dir_name(ctl.ast.location), ctl.ast.file) :
                importString(cachedImports', ctl.ast.location, ctl.ast.file, res).called]_vars

\* The import of "y" failed after the imports of "x" had succeeded.
C17_Witness ==
    /\ ctl.op = "error"
    /\ err = "Couldn't open import \"y\": no match"
    /\ Len(hist.loads) = 2
    /\ hist.loads[1].success
    /\ ~hist.loads[2].success
    /\ cachedImports[<<<<>>, "y">>].null

\* The step at which the length builtin returns, and its argument.
LengthStep ==
    /\ ctl.op = "loop"
    /\ Len(stack) > Top(nat).init
    /\ Top(stack).kind = "BUILTIN_FORCE_THUNKS"
    /\ heap[Top(stack).val.h].builtin = 14
    /\ Len(Top(stack).thunks) = 1
    /\ Top(stack).elementId = 1
LengthArg == heap[Top(stack).thunks[1]].content

\* The elements, the characters and the parameters the length of v is to
\* count.
LengthOfOthers(v) ==
    CASE v.t = "array" -> Len(heap[v.h].elements)
      [] v.t = "string" -> Len(heap[v.h].value)
      [] v.t = "function" -> Len(heap[v.h].params)
      [] OTHER -> -1

\* C18 as stated: the length of an object is the number of its fields,
\* visible and hidden; that of an array the number of its elements; that
\* of a function the number of its parameters.
C18_LengthCountsAllFields ==
    [][LengthStep
       => /\ ctl'.op = "loop"
          /\ scratch'.t = "number"
          /\ scratch'.n = IF LengthArg.t = "object"
                          THEN Cardinality(FieldsOf(heap, LengthArg.h))
                          ELSE LengthOfOthers(LengthArg)]_vars

\* C18: the length of an object is the number of its fields that are not
\* hidden (the fields a manifestation lists); that of an array the number
\* of its elements; that of a function the number of its parameters.
C18_Length ==
    [][LengthStep
       => /\ ctl'.op = "loop"
          /\ scratch'.t = "number"
          /\ scratch'.n = IF LengthArg.t = "object"
                          THEN Cardinality({f \in FieldsOf(heap, LengthArg.h) :
                                               EffectiveHide(heap, LengthArg.h, f) # "HIDDEN"})
                          ELSE LengthOfOthers(LengthArg)]_vars

\* The lengths of the object of three fields, one of them hidden, of the
\* function of two parameters and of the string have been emitted.
C18_Witness ==
    /\ cfg.prog = "length"
    /\ Len(out) >= 6
    /\ out[2] = Token("number", "", 2)
    /\ out[4] = Token("number", "", 2)
    /\ out[6] = Token("number", "", 1)

\* The CALL frames of the stack.
LiveCalls == {i \in DOMAIN stack : isCall(stack[i])}

\* The trace has the place of the failure first, then one entry for each
\* CALL frame of the stack and for no other frame.
TraceOfCalls ==
    /\ Len(trace) = 1 + Cardinality(LiveCalls)
    /\ trace[1].frame = 0
    /\ {trace[j].frame : j \in 2..Len(trace)} = LiveCalls
    /\ \A j \in 2..Len(trace) : trace[j].location = stack[trace[j].frame].ast

\* C19 as stated: the trace of a runtime error is the failure location
\* and one entry per live CALL frame, the outermost call first and the
\* innermost call last.
C19_OutermostFirst ==
    ctl.op = "error"
    => /\ TraceOfCalls
       /\ \A j, k \in 2..Len(trace) : j < k => trace[j].frame < trace[k].frame

\* C19: the trace of a runtime error is the failure location and one
\* entry per live CALL frame and per no other frame, the innermost call
\* first and the outermost call last.
C19_Trace ==
    ctl.op = "error"
    => /\ TraceOfCalls
       /\ \A j, k \in 2..Len(trace) : j < k => trace[j].frame > trace[k].frame

\* An error under two CALL frames and a frame of another kind.
C19_Witness ==
    /\ ctl.op = "error"
    /\ Len(trace) >= 3
    /\ \E i \in DOMAIN stack : ~isCall(stack[i])

\* C20: the trace of an error, with its frame names, is the same under
\* every order of the addresses of the identifiers.
C20_Deterministic ==
    ctl.op = "error"
    => \A a \in AddressOrders :
          makeError(stack, heap, trace[1].location, BindingOrder(a)) = trace

\* The number of LOCAL frames on top of the stack s.
TopLocals(s) ==
    CHOOSE k \in 0..Len(s) :
        /\ \A j \in (Len(s) - k + 1)..Len(s) : s[j].kind = "LOCAL"
        /\ k = Len(s) \/ s[Len(s) - k].kind # "LOCAL"

\* Under the LOCAL frames on top of s lies a CALL frame with tailCall set
\* and no pending argument thunks.
TrimShape(s) ==
    LET i == Len(s) - TopLocals(s)
    IN  i >= 1 /\ s[i].kind = "CALL" /\ s[i].tailCall /\ s[i].thunks = <<>>

\* The stacks there have been: the stack up to each of its frames.
StacksSoFar == {SubSeq(stack, 1, n) : n \in 0..Len(stack)}

\* C21: trimming a stack that has LOCAL frames (or none) on top of a CALL
\* frame with tailCall set and no pending thunks removes exactly that CALL
\* frame and the LOCAL frames above it and lowers the CALL count by one;
\* trimming any other stack changes neither the stack nor the count.
C21_TailCallTrim ==
    \A s \in StacksSoFar :
        LET t == tailCallTrimStack(s)
        IN  IF TrimShape(s)
            THEN /\ t.stack = SubSeq(s, 1, Len(s) - TopLocals(s) - 1)
                 /\ t.dropped = 1
                 /\ CallFrames(t.stack) = CallFrames(s) - 1
            ELSE t.stack = s /\ t.dropped = 0

\* A tailstrict call made under a local has trimmed the stack: its CALL
\* frame, whose argument m is still to be forced, lies directly on the
\* outermost LOCAL frame, and it is the only CALL frame.
C21_Witness ==
    /\ cfg.prog = "tail_local"
    /\ Len(stack) = 2
    /\ stack[1].kind = "LOCAL"
    /\ Top(stack).kind = "CALL"
    /\ Top(stack).tailCall
    /\ Top(stack).thunks # <<>>
    /\ heap[Top(stack).thunks[1]].body = Var("m")
    /\ calls = 1

\* The value V a manifestation is listing the members of.
Manifested(a) ==
    HeapValue(IF heap[a.ent].kind = "array" THEN "array" ELSE "object", a.ent)

\* C22: when a field or element of V has been forced and manifested, the
\* frame on top of the stack is the CALL frame opened for it, its val slot
\* holds V, and popping it leaves V in scratch.
C22_ValueRestored ==
    [][(Native("manifestJson", "restore") \/ Native("manifestMulti", "restore"))
       => /\ isCall(Top(stack))
          /\ Top(stack).val = Manifested(Top(nat))
          /\ scratch' = Manifested(Top(nat))
          /\ calls' = calls - 1]_vars

\* The self and the super-offset a super[e] is evaluated under: those of
\* the nearest CALL frame, none and 0 when there is no CALL frame.
CurrentSelf ==
    IF \E i \in DOMAIN stack : isCall(stack[i])
    THEN [self |-> EnclosingCall(stack).self, offset |-> EnclosingCall(stack).offset]
    ELSE [self |-> 0, offset |-> 0]

\* The number of leaves of the current self, 1 when there is no self.
CurrentLeaves == IF CurrentSelf.self = 0 THEN 1 ELSE Len(LeavesOf(heap, CurrentSelf.self))

\* C23: a super[e] whose super-offset plus one reaches the leaf count of the
\* current self fails with "Attempt to use super when there is no super
\* class." and leaves the stack and the CALL count as they are; otherwise
\* the field is looked up on the same self from the offset plus one.
C23_SuperIndex ==
    [][Unwinding("SUPER_INDEX")
       => IF CurrentSelf.offset + 1 >= CurrentLeaves
          THEN /\ ctl'.op = "error"
               /\ err' = "Attempt to use super when there is no super class."
               /\ stack' = stack
               /\ calls' = calls
          ELSE scratch.t = "string"
               => /\ hist'.oi.on
                  /\ hist'.oi.root = CurrentSelf.self
                  /\ hist'.oi.k = CurrentSelf.offset + 1
                  /\ hist'.oi.f = heap[scratch.h].value]_vars

\* The super of the leftmost of two leaves has failed: the offset was 1,
\* the leaf count 2.
C23_Witness ==
    /\ cfg.prog = "no_super"
    /\ ctl.op = "error"
    /\ err = "Attempt to use super when there is no super class."
    /\ Top(stack).kind = "SUPER_INDEX"
    /\ CurrentSelf.offset = 1
    /\ CurrentLeaves = 2

\* A self with its super-offset: the offset is below the number of leaves
\* of the self, and 0 when there is no self.
OffsetInRange(self, offset) ==
    IF self = 0 THEN offset = 0
    ELSE IsObject(heap[self]) /\ offset < Len(LeavesOf(heap, self))

\* C24: every CALL frame, thunk and closure with a self has a super-offset
\* below the number of leaves of that self, and every one without a self
\* has offset 0.
C24_OffsetsInRange ==
    /\ \A i \in DOMAIN stack :
          isCall(stack[i]) => OffsetInRange(stack[i].self, stack[i].offset)
    /\ \A e \in DOMAIN heap :
          heap[e].kind \in {"thunk", "closure"}
          => OffsetInRange(heap[e].self, heap[e].offset)

\* A CALL frame, a thunk and a closure whose self has three leaves and
\* whose offset is not 0, and a CALL frame of the leftmost leaf.
C24_Witness ==
    /\ \E i \in DOMAIN stack :
          isCall(stack[i]) /\ stack[i].self # 0 /\ stack[i].offset = 1
    /\ \E i \in DOMAIN stack :
          /\ isCall(stack[i])
          /\ stack[i].self # 0
          /\ stack[i].offset = 2
          /\ Len(LeavesOf(heap, stack[i].self)) = 3
    /\ \E e \in DOMAIN heap :
          heap[e].kind = "thunk" /\ heap[e].self # 0 /\ heap[e].offset > 0
    /\ \E e \in DOMAIN heap :
          heap[e].kind = "closure" /\ heap[e].self # 0 /\ heap[e].offset > 0

\* The INVARIANTS frames of the stack stk for the object o.
InvariantsFrames(stk, o) ==
    {i \in DOMAIN stk : stk[i].kind = "INVARIANTS" /\ stk[i].self = o}

\* C25: the stack holds at most one INVARIANTS frame per object, and a step
\* taken while an INVARIANTS frame for an object is on the stack pushes no
\* further one for it: indexing or manifesting the object inside its own
\* assertions does not run the assertions again.
C25_ReentryGuard ==
    [][\A o \in DOMAIN heap' :
          /\ Cardinality(InvariantsFrames(stack', o)) <= 1
          /\ (o \in DOMAIN heap /\ InvariantsFrames(stack, o) # {})
             => InvariantsFrames(stack', o) \subseteq InvariantsFrames(stack, o)]_vars

\* An object is being indexed while its INVARIANTS frame is on the stack:
\* an assertion reads a field of its own object.
C25_Witness ==
    \E i, j \in DOMAIN stack :
        /\ i < j
        /\ stack[i].kind = "INVARIANTS"
        /\ stack[i].self # 0
        /\ stack[j].kind = "INDEX_INDEX"
        /\ stack[j].val = HeapValue("object", stack[i].self)
        /\ j = Len(stack)
        /\ Cardinality({k \in DOMAIN stack : stack[k].kind = "INVARIANTS"}) = 1

\* The frames a variable is looked up in: those from the top of the stack
\* down to and including the nearest CALL frame.
ScopeFrames ==
    LET cs == {i \in DOMAIN stack : isCall(stack[i])}
        c == IF cs = {} THEN 1 ELSE CHOOSE i \in cs : \A j \in cs : j <= i
    IN  {i \in DOMAIN stack : i >= c}

\* The frames in scope that bind id.
Binders(id) == {i \in ScopeFrames : id \in DOMAIN stack[i].bindings}

\* C26: the lookup of an identifier returns its binding in the topmost
\* frame that binds it among the frames from the top of the stack down to
\* and including the nearest CALL frame, and misses when none of them binds
\* it, whatever the frames below that CALL frame bind.
C26_LookUpVar ==
    \A n \in DOMAIN Identifiers :
        LET id == Identifiers[n]
            B == Binders(id)
        IN  lookUpVar(stack, id) =
                IF B = {} THEN 0
                ELSE stack[CHOOSE i \in B : \A j \in B : j <= i].bindings[id]

\* The variable f is being looked up in the CALL frame of the thunk g: f
\* is bound by the CALL frame itself, g only by the LOCAL frame below it.
C26_Witness ==
    /\ cfg.prog = "names"
    /\ ctl.op = "eval"
    /\ ctl.ast = Var("f")
    /\ isCall(Top(stack))
    /\ "f" \in DOMAIN Top(stack).bindings
    /\ lookUpVar(stack, "f") = Top(stack).bindings["f"]
    /\ "g" \in DOMAIN stack[1].bindings
    /\ lookUpVar(stack, "g") = 0

\* The variables a local binds.
LocalVars(ast) == {ast.binds[i].var : i \in DOMAIN ast.binds}

\* C27: when a local has been entered, the LOCAL frame binds each of its
\* variables to a new thunk, and the environment of each of these thunks
\* maps every free variable of its body that the local binds (its own
\* variable included) to the thunk of that local, not to a binding there
\* was before.
C27_LocalCapture ==
    [][Evaluating("local")
       => LET f == Top(stack')
              new == (DOMAIN heap') \ (DOMAIN heap)
          IN  /\ f.kind = "LOCAL"
              /\ DOMAIN f.bindings = LocalVars(ctl.ast)
              /\ \A i \in DOMAIN ctl.ast.binds :
                    LET b == ctl.ast.binds[i]
                        th == heap'[f.bindings[b.var]]
                    IN  /\ f.bindings[b.var] \in new
                        /\ th.body = b.body
                        /\ \A v \in FreeVars(b.body) \cap LocalVars(ctl.ast) :
                              /\ v \in DOMAIN th.upValues
                              /\ th.upValues[v] = f.bindings[v]]_vars

\* The inner f and g of the program have been bound over the outer ones,
\* each seeing the other, and the call of f has returned the inner g.
C27_Witness ==
    /\ cfg.prog = "mutual"
    /\ ctl.op = "done"
    /\ out = <<Token("number", "", 1)>>
    /\ \E t, u \in DOMAIN heap :
          /\ t # u
          /\ heap[t].kind = "thunk"
          /\ heap[u].kind = "thunk"
          /\ heap[t].name = "f"
          /\ heap[u].name = "g"
          /\ "g" \in DOMAIN heap[t].upValues
          /\ heap[t].upValues["g"] = u
          /\ "f" \in DOMAIN heap[u].upValues
          /\ heap[u].upValues["f"] = t

\* The left operand of the binary operator on top of the stack has been
\* evaluated to a value that decides the result.
ShortCircuit ==
    /\ scratch.t = "boolean"
    /\ \/ Top(stack).ast.op = "&&" /\ scratch.n = 0
       \/ Top(stack).ast.op = "||" /\ scratch.n = 1

\* C28: when the left operand of && is false, or that of || is true, the
\* operator returns the value of the left operand and nothing is done for
\* the right one: no frame is pushed, nothing is allocated, no thunk is
\* forced.  In every other case the right operand is evaluated next, and
\* when it has been evaluated the operator returns or fails, or + goes on
\* to concatenate strings: it is not evaluated a second time.
C28_ShortCircuit ==
    [][/\ Unwinding("BINARY_LEFT")
          => IF ShortCircuit
             THEN /\ ctl'.op = "loop"
                  /\ scratch' = scratch
                  /\ stack' = Pop(stack)
                  /\ heap' = heap
                  /\ hist'.entered = hist.entered
             ELSE /\ ctl' = [op |-> "eval", ast |-> Top(stack).ast.right]
                  /\ Len(stack') = Len(stack)
                  /\ Top(stack').kind = "BINARY_RIGHT"
                  /\ Top(stack').val = scratch
       /\ Unwinding("BINARY_RIGHT")
          => /\ ctl'.op \in {"loop", "error"}
             /\ ctl'.op = "loop"
                => \/ Len(stack') < Len(stack)
                   \/ /\ Top(stack).ast.op = "+"
                      /\ Top(stack').kind = "STRING_CONCAT"]_vars

ShortCircuitResult ==
    <<Token("[", "", 0), Token("false", "", 0), Token(",", "", 0), Token("true", "", 0),
      Token(",", "", 0), Token("false", "", 0), Token(",", "", 0), Token("true", "", 0),
      Token("]", "", 0)>>

\* The four operators of the program have been evaluated, the two with an
\* error for right operand without raising it.
C28_Witness ==
    /\ cfg.prog = "short"
    /\ ctl.op = "done"
    /\ out = ShortCircuitResult

\* The frame on top of the stack forces argument thunks: that of a built-in
\* call, or the CALL frame of a tailstrict call of a user function.
ForcesArguments ==
    \/ Unwinding("BUILTIN_FORCE_THUNKS")
    \/ /\ Unwinding("CALL")
       /\ Top(stack).context # 0
       /\ heap[Top(stack).context].kind = "closure"
       /\ Len(Top(stack).thunks) > 0

\* The frame f holds one unforced thunk per argument of the call, in
\* argument order.
HoldsArguments(f, args, h, hst) ==
    /\ f.elementId = 0
    /\ Len(f.thunks) = Len(args)
    /\ \A i \in 1..Len(args) :
          /\ h[f.thunks[i]].body = args[i]
          /\ ~h[f.thunks[i]].filled
          /\ f.thunks[i] \notin DOMAIN hst.entered

\* C29: the argument thunks of a built-in call and of a tailstrict call of
\* a user function are forced one at a time in argument order, each one
\* completed before the next is entered, and the native operation runs,
\* or the body is entered, only when all of them have been forced; the
\* body of a call that is not tailstrict is entered with every argument
\* thunk unforced.
C29_ArgumentForcing ==
    [][/\ ForcesArguments
          => LET f == Top(stack) IN
             /\ \A i \in 1..f.elementId : f.thunks[i] \in hist.done
             /\ \A i \in (f.elementId + 1)..Len(f.thunks) :
                   f.thunks[i] \notin DOMAIN hist.entered
             /\ IF f.elementId < Len(f.thunks)
                THEN LET th == f.thunks[f.elementId + 1] IN
                     /\ ctl'.op \in {"eval", "error"}
                     /\ ctl'.op = "eval"
                        => /\ ctl'.ast = heap[th].body
                           /\ Top(stack').context = th
                           /\ th \in DOMAIN hist'.entered
                ELSE IF f.kind = "CALL"
                THEN ctl' = [op |-> "eval", ast |-> heap[f.context].body]
                ELSE \/ ctl'.op \in {"loop", "error"}
                     \/ heap[f.val.h].builtin \in {12, 23}
       /\ (Unwinding("APPLY_TARGET") /\ ctl'.op # "error")
          => LET ast == Top(stack).ast
                 func == heap[scratch.h]
                 f == Top(stack')
             IN
             IF func.body = NoAst
             THEN /\ ctl'.op = "loop"
                  /\ f.kind = "BUILTIN_FORCE_THUNKS"
                  /\ HoldsArguments(f, ast.args, heap', hist')
             ELSE IF ast.tailstrict /\ Len(ast.args) > 0
             THEN /\ ctl'.op = "loop"
                  /\ f.kind = "CALL" /\ f.context = scratch.h
                  /\ HoldsArguments(f, ast.args, heap', hist')
             ELSE /\ ctl' = [op |-> "eval", ast |-> func.body]
                  /\ f.kind = "CALL" /\ f.context = scratch.h
                  /\ f.thunks = <<>>
                  /\ \A i \in 1..Len(ast.args) :
                        LET th == f.bindings[func.params[i]] IN
                        /\ heap'[th].body = ast.args[i]
                        /\ ~heap'[th].filled
                        /\ th \notin DOMAIN hist'.entered]_vars

\* The two arguments of the tailstrict call f(1, 2) have been forced, the
\* first one first, and the body of f is about to be entered.
C29_Witness ==
    /\ cfg.prog = "args"
    /\ ForcesArguments
    /\ Top(stack).kind = "CALL"
    /\ Top(stack).elementId = 2
    /\ Len(Top(stack).thunks) = 2
    /\ heap[Top(stack).thunks[1]].content = makeDouble(1)
    /\ heap[Top(stack).thunks[2]].content = makeDouble(2)

\* The value v is that of the literal field name e.
IsNameValue(h, v, e) ==
    CASE e.k = "str" -> v.t = "string" /\ h[v.h].value = e.s
      [] e.k = "null" -> v.t = "null"
      [] e.k = "num" -> v.t = "number" /\ v.n = e.n
      [] OTHER -> TRUE

\* The string names among the first n declared fields of an object literal.
StringNames(ast, n) ==
    {ast.fields[j].name.s : j \in {i \in 1..n : ast.fields[i].name.k = "str"}}

\* The string v is the name of one of the first n elements of array arr.
ElementNames(h, arr, n) ==
    {h[h[arr.elements[j]].content.h].value : j \in 1..n}

\* The step is the runtime error msg and creates nothing.
CreatesNothing(msg) == ctl'.op = "error" /\ err' = msg /\ heap' = heap

\* The step creates one heap entity, the object left in scratch.
Creates(kind) ==
    /\ ctl'.op = "loop"
    /\ Len(heap') = Len(heap) + 1
    /\ scratch' = HeapValue("object", Len(heap'))
    /\ heap'[scratch'.h].kind = kind
    /\ stack' = Pop(stack)

CallsOn(fn, th, d) ==
    /\ Len(stack') = d + 1
    /\ Top(stack').kind = "CALL"
    /\ Top(stack').context = fn
    /\ Top(stack').bindings = Put(heap[fn].upValues, heap[fn].params[1], th)
    /\ ctl' = [op |-> "eval", ast |-> heap[fn].body]

\* The thunks of the sequence ths whose value is a number from 2 up: those
\* function(x) 2 <= x returns true for.
FromTwo(h, ths) == SelectSeq(ths, LAMBDA th : h[th].content.n >= 2)

\* C31: filter(f, a) calls f on a[0] first and on each next element once
\* the call before has returned a boolean, so once per element in index
\* order; it keeps the element thunks f returned true for, in their
\* order, and returns an array of them after the last element; a
\* non-boolean result is an error there and then; for an empty array it
\* returns an empty array without any call.
C31_Filter ==
    [][/\ (/\ Unwinding("BUILTIN_FORCE_THUNKS")
           /\ Top(stack).elementId = Len(Top(stack).thunks)
           /\ heap[Top(stack).val.h].builtin = 12
           /\ ctl'.op # "error")
          => LET f == Top(stack)
                 fn == heap[f.thunks[1]].content.h
                 arr == heap[heap[f.thunks[2]].content.h]
             IN
             IF arr.elements = <<>>
             THEN /\ ctl'.op = "loop"
                  /\ stack' = Pop(stack)
                  /\ calls' = calls
                  /\ scratch'.t = "array"
                  /\ scratch'.h \notin DOMAIN heap
                  /\ heap'[scratch'.h].elements = <<>>
             ELSE /\ stack'[Len(stack)].kind = "BUILTIN_FILTER"
                  /\ stack'[Len(stack)].elementId = 0
                  /\ stack'[Len(stack)].thunks = <<>>
                  /\ CallsOn(fn, arr.elements[1], Len(stack))
       /\ Unwinding("BUILTIN_FILTER")
          => LET f == Top(stack)
                 arr == heap[f.val2.h]
                 i == f.elementId + 1
                 kept == IF scratch.n = 1 THEN Append(f.thunks, arr.elements[i])
                         ELSE f.thunks
             IN
             /\ i <= Len(arr.elements)
             /\ cfg.prog = "filter"
                => /\ f.thunks = FromTwo(heap, SubSeq(arr.elements, 1, i - 1))
                   /\ scratch = makeBoolean(heap[arr.elements[i]].content.n >= 2)
             /\ IF scratch.t # "boolean"
                THEN /\ ctl'.op = "error"
                     /\ err' = "filter function must return boolean, got: "
                                    \o type_str(scratch)
                     /\ heap' = heap
                ELSE IF i = Len(arr.elements)
                THEN /\ ctl'.op = "loop"
                     /\ stack' = Pop(stack)
                     /\ scratch'.t = "array"
                     /\ scratch'.h \notin DOMAIN heap
                     /\ heap'[scratch'.h].elements = kept
                ELSE /\ ctl'.op \in {"eval", "error"}
                     /\ ctl'.op = "eval"
                        => /\ stack'[Len(stack)].kind = "BUILTIN_FILTER"
                           /\ stack'[Len(stack)].elementId = i
                           /\ stack'[Len(stack)].thunks = kept
                           /\ CallsOn(f.val.h, arr.elements[i + 1], Len(stack))]_vars

\* filter(function(x) 2 <= x, [1, 2, 3, 1]) has returned an array of the
\* second and the third element thunk of its argument.
C31_Witness ==
    /\ cfg.prog = "filter"
    /\ ctl.op = "loop"
    /\ Top(stack).kind = "BINARY_LEFT"
    /\ scratch.t = "array"
    /\ Len(heap[scratch.h].elements) = 2
    /\ heap[heap[scratch.h].elements[1]].content = makeDouble(2)
    /\ heap[heap[scratch.h].elements[2]].content = makeDouble(3)
    /\ heap[heap[scratch.h].elements[1]].name = "array_element"

\* The built-in frame on top of the stack is that of a call extVar(name)
\* whose argument has been forced.
ExtVarRuns ==
    /\ Unwinding("BUILTIN_FORCE_THUNKS")
    /\ Top(stack).elementId = Len(Top(stack).thunks)
    /\ heap[Top(stack).val.h].builtin = 23

\* The frames of the stack that belong to the evaluation of the program
\* of an external variable.
ExtFrames == {i \in DOMAIN stack : stack[i].ast = Binary(Num(1), "+", Num(2))}

\* C32: extVar(name) fails with "Undefined external variable: <name>" for
\* a name that is not in the map; for an entry that is not code it returns
\* a string of the entry's text; for an entry that is code it pops its own
\* frame and evaluates the parsed program, whose frames lie directly on
\* the frame that was on top before the call, which receives the value of
\* the program as the value of the call.
C32_ExtVar ==
    [][/\ ExtVarRuns
          => LET name == heap[heap[Top(stack).thunks[1]].content.h].value IN
             IF name \notin {"s", "c"}
             THEN /\ ctl'.op = "error"
                  /\ err' = "Undefined external variable: " \o name
                  /\ stack' = stack
             ELSE IF name = "s"
             THEN /\ ctl'.op = "loop"
                  /\ stack' = Pop(stack)
                  /\ scratch'.t = "string"
                  /\ heap'[scratch'.h].value = "1 + 2"
             ELSE /\ ctl' = [op |-> "eval", ast |-> Binary(Num(1), "+", Num(2))]
                  /\ stack' = Pop(stack)
                  /\ heap' = heap
       /\ \A i \in IF cfg.prog = "extvar" THEN ExtFrames ELSE {} :
             /\ i = Len(stack)
             /\ i > 1
             /\ stack[i - 1].kind = "CALL"
             /\ heap[stack[i - 1].context].body = ExtVar("c")
       /\ \A i \in DOMAIN stack :
             (/\ stack[i].kind = "CALL"
              /\ stack[i].context # 0
              /\ heap[stack[i].context].kind = "thunk"
              /\ heap[stack[i].context].body = ExtVar("c")
              /\ i = Len(stack)
              /\ ctl.op = "loop")
             => /\ scratch = makeDouble(3)
                /\ Len(stack') <= Len(stack)]_vars

\* The array [extVar("s"), extVar("c")] has been manifested: a string of
\* the text of s and the value of the program of c.
C32_Witness ==
    /\ cfg.prog = "extvar"
    /\ ctl.op = "done"
    /\ out = <<Token("[", "", 0), Token("string", "1 + 2", 0), Token(",", "", 0),
               Token("number", "", 3), Token("]", "", 0)>>

ComprehensionResult ==
    <<Token("{", "", 0), Token("key", "a", 0), Token("string", "a", 0),
      Token(",", "", 0), Token("key", "b", 0), Token("string", "b", 0),
      Token(",", "", 0), Token("key", "c", 0), Token("string", "c", 0),
      Token("}", "", 0)>>

\* The last objectIndex found its field in a comprehension object and
\* pushed a CALL frame for it.
ComprehensionIndexed ==
    /\ hist.oi.on
    /\ hist.oi.pushed
    /\ heap[hist.oi.frame.context].kind = "comp"

\* C33: the CALL frame opened for field f of a comprehension object binds
\* the variables the comprehension captured as it captured them, and the
\* loop variable to the thunk kept under f, which is the element of the
\* array that evaluated to f; { [k]: k for k in ["c", "a", "b"] }
\* manifests as a: "a", b: "b", c: "c".
C33_ComprehensionBindings ==
    /\ ComprehensionIndexed
       => LET frame == hist.oi.frame
              c == heap[frame.context]
              f == hist.oi.f
          IN
          /\ frame.kind = "CALL"
          /\ f \in DOMAIN c.compValues
          /\ DOMAIN frame.bindings = DOMAIN c.upValues \cup {c.id}
          /\ \A x \in DOMAIN c.upValues \ {c.id} : frame.bindings[x] = c.upValues[x]
          /\ frame.bindings[c.id] = c.compValues[f]
          /\ heap[c.compValues[f]].name = "array_element"
          /\ heap[c.compValues[f]].body = Str(f)
    /\ (cfg.prog = "comprehension" /\ cfg.mode = "json" /\ ctl.op = "done")
       => out = ComprehensionResult

\* Field c of { [k]: k for k in ["c", "a", "b"] }, the name made from the
\* first element, is about to be evaluated in its CALL frame.
C33_Witness ==
    /\ cfg.prog = "comprehension"
    /\ ComprehensionIndexed
    /\ hist.oi.f = "c"
    /\ ctl = [op |-> "eval", ast |-> Var("k")]
    /\ Top(stack).kind = "CALL"
    /\ Top(stack).context = hist.oi.frame.context
    /\ Top(stack).bindings = hist.oi.frame.bindings

\* The loop of the running evaluate has ended: evaluate returns.
EvaluateReturns ==
    /\ ctl.op = "loop"
    /\ Top(nat).fn = "evaluate"
    /\ Len(stack) <= Top(nat).init

\* The programs whose value is a number, and that number.
NumberPrograms == {"tail", "tail_all", "tail_local", "deep", "lexical"}
ProgramValue ==
    CASE cfg.prog = "deep" -> cfg.n
      [] cfg.prog = "lexical" -> 2
      [] OTHER -> 0

CallsOf(stk) == SelectSeq(stk, LAMBDA f : f.kind = "CALL")

\* C35: the counter of the stack is the number of CALL frames on it in
\* every state, and every step changes the counter by as much as it
\* changes that number, the steps that trim the stack and those that end
\* in "Max stack frames exceeded." included.
C35_CallCounter ==
    [][/\ calls = Len(CallsOf(stack))
       /\ calls' - calls = Len(CallsOf(stack')) - Len(CallsOf(stack))]_vars

\* A tailstrict call has trimmed the stack and pushed its CALL frame, and
\* a frame that is not a CALL frame is on the stack.
C35_Witness ==
    /\ cfg.prog = "tail_local"
    /\ cfg.n >= 2
    /\ calls = 1
    /\ Len(stack) = 2
    /\ stack[1].kind = "LOCAL"
    /\ stack[2].kind = "CALL"
    /\ stack[2].tailCall
    /\ hist.done # {}

\* C36: manifestation leaves the stack as it found it: when runInvariants
\* returns to the manifestJson that jsonnet_vm_execute called, and when
\* jsonnet_vm_execute and its multi and stream variants return their
\* output, the stack is empty, as it was when the manifestation began, and
\* the counter of CALL frames is 0.
C36_StackNeutral ==
    /\ (Native("manifestJson", "fields") /\ Len(nat) = 2) => stack = <<>>
    /\ ctl.op = "done" => stack = <<>> /\ calls = 0


\* C37: the step that completes a string concatenation leaves the
\* concatenated string in scratch and pops the STRING_CONCAT frame itself, so
\* the stack is then exactly what lay below that frame, whatever the coerced
\* value is, objects that carry assertions included.
C37_StringConcat ==
    [][(ctl.op = "native" /\ Top(nat).fn = "concat" /\ Len(nat') < Len(nat))
       => /\ scratch'.t = "string"
          /\ stack' = SubSeq(stack, 1, Top(nat).i - 1)]_vars

\* C38: the index subexpression of an index operation is evaluated exactly
\* once: no INDEX_INDEX frame has had its index expression started twice, and
\* when the loop reaches such a frame it has been started once, whatever the
\* target is (array, string, object with or without assertions).
C38_IndexOnce ==
    /\ \A i \in 1..Len(stack) :
          stack[i].kind = "INDEX_INDEX" => stack[i].ginv.index <= 1
    /\ Unwinding("INDEX_INDEX") => Top(stack).ginv.index = 1

\* The frame at depth i of the stack is the CALL frame of a function.
FunctionCall(stk, h, i) ==
    /\ stk[i].kind = "CALL"
    /\ stk[i].context # 0
    /\ h[stk[i].context].kind = "closure"

\* C39: every call executes its callee exactly once.  The body of a called
\* function has been entered once, or not yet while the frame still holds
\* argument thunks to force, and never more than once; the loop pops the
\* frame of a function call only after the body was entered, and leaves a
\* BUILTIN_FORCE_THUNKS frame only in the step that runs the native
\* operation, with every argument forced; the next argument thunk either
\* frame is about to force is never filled already.  This holds for calls
\* that are tailstrict or not, with or without arguments.
C39_CalleeOnce ==
    [][/\ \A i \in 1..Len(stack) :
             FunctionCall(stack, heap, i)
             => /\ stack[i].ginv.ran <= 1
                /\ stack[i].ginv.ran = 0 => Len(stack[i].thunks) > 0
       /\ (ForcesArguments /\ ThunksLeft(Top(stack)))
          => /\ ~heap[Top(stack).thunks[Top(stack).elementId + 1]].filled
             /\ ctl'.op # "error"
                => /\ Len(stack') = Len(stack) + 1
                   /\ stack'[Len(stack)].kind = Top(stack).kind
                   /\ stack'[Len(stack)].ginv.ran = 0
       /\ (Unwinding("CALL") /\ FunctionCall(stack, heap, Len(stack))
             /\ Len(stack') < Len(stack))
          => Top(stack).ginv.ran = 1
       /\ (Unwinding("BUILTIN_FORCE_THUNKS") /\ ~ThunksLeft(Top(stack)))
          => /\ \A i \in 1..Len(Top(stack).thunks) : Top(stack).thunks[i] \in hist.done
             /\ \/ ctl'.op = "error"
                \/ Len(stack') < Len(stack)
                \/ stack'[Len(stack)].kind # "BUILTIN_FORCE_THUNKS"]_vars

\* The tailstrict call f(1, 2) returns: its two arguments were forced, the
\* body was entered once and left the value 1, and the frame is popped next.
C39_Witness ==
    /\ cfg.prog = "args"
    /\ Unwinding("CALL")
    /\ FunctionCall(stack, heap, Len(stack))
    /\ Top(stack).tailCall
    /\ Top(stack).thunks = <<>>
    /\ Top(stack).ginv.ran = 1
    /\ scratch = makeDouble(1)

====
